---- MODULE Spec2Model ----
(***************************************************************************)
(* Model of the universal text-to-image plugin (src/main.py) and its       *)
(* Tongyi provider (src/providers/tongyi.py).                              *)
(*                                                                         *)
(* Text is modelled as a sequence of characters.  A fixed Chinese literal  *)
(* of the source stands as one character, written as an ASCII token, with  *)
(* the original literal in the comment beside it; the punctuation the code *)
(* formats and splits on (":", " ", ";") is kept character by character.   *)
(***************************************************************************)
EXTENDS Integers, Sequences, FiniteSets, TLC

VARIABLES
    providers,               \* self.providers: the names registered at construction
    providers_list,          \* _generate_with_providers: its providers_list argument
    errors,                  \* _generate_with_providers: the local list errors
    o_pc,                    \* _generate_with_providers: where the coroutine stands
    o_i,                     \* _generate_with_providers: position of the for loop (1-based)
    o_ret,                   \* _generate_with_providers: the returned ImageGenerationResult
    calls,                   \* every provider.generate_image call made, in the order started
    config,                  \* self.config: the plugin's configuration dict
    admins,                  \* the host's "admins_id" list, read through context.config_helper
    user_last_request_time,  \* self.user_last_request_time: user id -> time of the last accepted request
    now,                     \* the wall clock read by time.time(), in ticks
    cd_call,                 \* the latest _check_cooldown call: its user_id, its locals
                             \* cooldown_time and last_time, whether its except clause
                             \* ran, and what it returned
    cd_seq,                  \* flips at every _check_cooldown call
    p_pc,                    \* _wait_for_task_completion: where the coroutine stands
    attempt,                 \* _wait_for_task_completion: the local attempt
    queries,                 \* number of status queries (session.get) issued so far
    last_response,           \* the latest response to a status query
    p_ret,                   \* _wait_for_task_completion: the returned ImageGenerationResult
    active_providers,        \* self.active_providers: the registered names that passed is_configured
    iti_pc,                  \* image_to_image_command: where the coroutine stands
    iti_user,                \* image_to_image_command: event.unified_msg_origin, the key of the session
    prompt,                  \* image_to_image_command: the local prompt
    timeout,                 \* image_to_image_command: the local timeout, in seconds
    images,                  \* image_to_image_command: the local list images
    started_at,              \* the time wait_for_images was registered
    kept_at,                 \* the time the session timer was last started
    last_event_at,           \* the time of the latest event wait_for_images handled (or of the start)
    sent,                    \* the messages sent to the user by the latest step
    edit_calls,              \* every generate_image_edit call made: provider, prompt, images
    ev_routed,               \* whether the latest inbound event was given to wait_for_images
    tti_pc,                  \* _handle_image_generation: where the coroutine stands
    tti_specific,            \* _handle_image_generation: its specific_provider argument
    tti_reply,               \* the messages the latest /tti command has yielded
    pending,                 \* user -> number of /tti events dispatched whose handler has not run yet
    accepted,                \* the /tti requests a check with a positive cooldown_time accepted
                             \* for a non-administrator, in the order checked
    g_pc,                    \* TongyiProvider.generate_image / generate_image_edit: where the coroutine stands
    g_call,                  \* the method called and config.width, config.height
    g_ret,                   \* what the call produced: a returned result or an exception
    iti_pending,             \* user -> number of /iti events dispatched to image_to_image_command
                             \* whose handler has not run yet
    other_sessions           \* the sessions of the /iti handlers that reached wait_for_images while
                             \* the session above was open: user, prompt, images

orchVars == <<providers, providers_list, errors, o_pc, o_i, o_ret, calls>>

cdVars == <<config, admins, user_last_request_time, now, cd_call, cd_seq>>

tongyiVars == <<g_pc, g_call, g_ret>>

pollVars == <<p_pc, attempt, queries, last_response, p_ret, tongyiVars>>

sessVars == <<iti_pc, iti_user, prompt, timeout, images, started_at, kept_at,
              last_event_at, sent, edit_calls, ev_routed>>

cmdVars == <<tti_pc, tti_specific, tti_reply>>

editReqVars == <<iti_pending, other_sessions>>

reqVars == <<pending, accepted, editReqVars>>

vars == <<providers, providers_list, errors, o_pc, o_i, o_ret, calls,
          config, admins, user_last_request_time, now, cd_call, cd_seq,
          p_pc, attempt, queries, last_response, p_ret,
          active_providers,
          iti_pc, iti_user, prompt, timeout, images, started_at, kept_at,
          last_event_at, sent, edit_calls, ev_routed,
          tti_pc, tti_specific, tti_reply, pending, accepted,
          g_pc, g_call, g_ret, iti_pending, other_sessions>>

----------------------------------------------------------------------------
(* Bounds of the model *)

\* longest candidate list handed to _generate_with_providers
MaxCandidates == 3

\* the wall clock runs over 0..MaxTime ticks
MaxTime == 3

\* clock resolution: ticks in one second (time.time() is a float, cooldown_time is in seconds)
TicksPerSecond == 2

----------------------------------------------------------------------------
(* Values *)

\* a text field that is None or "" (the code tests these fields by truthiness)
NoText == <<>>

\* provider names (keys of provider_mappings): "zhipu", "tongyi"
Names == { <<"z", "p">>, <<"t", "y">> }

\* error_message values a provider puts in a failed ImageGenerationResult;
\* <<>> is a falsy error_message (None or "")
ErrorMessages ==
    { <<>>,
      <<"q">>,
      <<":", " ">>,
      <<"k", ":", " ", "v">>,
      <<";", " ", "t", "y", ":", " ">> }

\* str(e) of an exception escaping provider.generate_image
ExceptionDetails == { <<"e">>, <<"e", ":", " ", "d">> }

SuccessResults ==
    { [success |-> TRUE, image_url |-> <<"h">>, image_base64 |-> NoText, error_message |-> NoText],
      [success |-> TRUE, image_url |-> NoText, image_base64 |-> <<"b">>, error_message |-> NoText] }

\* ImageGenerationResult(success=False, error_message=m)
FailureResult(m) ==
    [success |-> FALSE, image_url |-> NoText, image_base64 |-> NoText, error_message |-> m]

\* the value of o_ret and of a call's result before there is one
NoResult == FailureResult(NoText)

SeqsUpTo(S, n) == UNION { [1..k -> S] : k \in 0..n }

----------------------------------------------------------------------------
(* String operations used by _generate_with_providers *)

\* ": "
Sep == <<":", " ">>

\* "; "
JoinSep == <<";", " ">>

\* "供应商未配置"
NotConfiguredMsg == <<"NOT_CONFIGURED">>

\* "未知错误"
UnknownErrorMsg == <<"UNKNOWN_ERROR">>

\* "请求异常: "
RequestExceptionPrefix == <<"REQUEST_EXCEPTION", ":", " ">>

\* "生成失败"
GenerateFailedMsg == <<"GENERATE_FAILED">>

\* "所有供应商都无法生成图片。详细错误: "
AllFailedPrefix == <<"ALL_PROVIDERS_FAILED_DETAILS", ":", " ">>

\* s[i:] starts with sep
StartsAt(s, sep, i) ==
    /\ i + Len(sep) - 1 <= Len(s)
    /\ \A k \in 1..Len(sep) : s[i + k - 1] = sep[k]

\* str.find: the first position where sep occurs in s, 0 when it does not
Find(s, sep) ==
    LET hits == { i \in 1..Len(s) : StartsAt(s, sep, i) }
    IN  IF hits = {} THEN 0 ELSE CHOOSE i \in hits : \A j \in hits : i <= j

\* mutant of Split1: rsplit, cutting at the last occurrence of sep
Split1_Last(s, sep) ==
    LET hits == { i \in 1..Len(s) : StartsAt(s, sep, i) }
        p == IF hits = {} THEN 0 ELSE CHOOSE i \in hits : \A j \in hits : i >= j
    IN  IF p = 0 THEN <<s>>
        ELSE <<SubSeq(s, 1, p - 1), SubSeq(s, p + Len(sep), Len(s))>>

\* s.split(sep, 1): cut at the first occurrence of sep only
Split1(s, sep) ==
    LET p == Find(s, sep)
    IN  IF p = 0 THEN <<s>>
        ELSE <<SubSeq(s, 1, p - 1), SubSeq(s, p + Len(sep), Len(s))>>

RECURSIVE Join(_, _)
\* sep.join(parts)
Join(sep, parts) ==
    IF parts = <<>> THEN <<>>
    ELSE IF Len(parts) = 1 THEN parts[1]
    ELSE parts[1] \o sep \o Join(sep, Tail(parts))

\* mutant of ErrorEntry: the entry without the provider's name
ErrorEntry_NoName(name, msg) == msg

\* f"{provider_name}: {error_msg}"
ErrorEntry(name, msg) == name \o Sep \o msg

\* result.error_message or "未知错误"
FailureMessage(result) ==
    IF result.error_message = NoText THEN UnknownErrorMsg ELSE result.error_message

\* f"请求异常: {str(e)}"
ExceptionMessage(detail) == RequestExceptionPrefix \o detail

----------------------------------------------------------------------------
(* _generate_with_providers (src/main.py 429-459) *)

NoCall ==
    [index |-> 0, name |-> NoText, status |-> "none", result |-> NoResult, detail |-> NoText]

CurrentName == providers_list[o_i]

LastCall == calls[Len(calls)]

\* the outstanding generate_image call ends: with a result, or by raising
EndCall(status, result, detail) ==
    [calls EXCEPT ![Len(calls)] =
        [@ EXCEPT !.status = status, !.result = result, !.detail = detail]]

\* if len(providers_list) == 1: errors[0].split(": ", 1)[1] if errors else "生成失败"
\* else: f"所有供应商都无法生成图片。详细错误: {'; '.join(errors)}"
AggregateMessage(list, errs) ==
    IF Len(list) = 1
    THEN IF errs # <<>> THEN Split1(errs[1], Sep)[2] ELSE GenerateFailedMsg
    ELSE AllFailedPrefix \o Join(JoinSep, errs)

\* errors[0].split(": ", 1)[1] raises IndexError when the split gives one part
AggregateRaises(list, errs) ==
    /\ Len(list) = 1
    /\ errs # <<>>
    /\ Len(Split1(errs[1], Sep)) < 2

\* the call _generate_with_providers(config, providers_list), as its caller makes it
GenerateStep(list) ==
    /\ o_pc = "idle"
    /\ providers_list' = list
    /\ errors' = <<>>
    /\ o_i' = 1
    /\ o_pc' = "loop"
    /\ UNCHANGED <<providers, o_ret, calls>>

\* the call _generate_with_providers(config, providers_list) on its own
Generate(list) ==
    /\ GenerateStep(list)
    /\ UNCHANGED cdVars
    /\ UNCHANGED <<pollVars, active_providers, sessVars, cmdVars, reqVars>>

\* mutant of OrchSkipUnregistered: an unregistered name ends the whole run
OrchSkipUnregistered_Return ==
    /\ o_pc = "loop"
    /\ o_i <= Len(providers_list)
    /\ CurrentName \notin providers
    /\ o_ret' = FailureResult(NotConfiguredMsg)
    /\ o_pc' = "done"
    /\ UNCHANGED <<providers, providers_list, errors, o_i, calls>>
    /\ UNCHANGED cdVars
    /\ UNCHANGED <<pollVars, active_providers, sessVars, cmdVars, reqVars>>

\* if provider_name not in self.providers: errors.append(...); continue
OrchSkipUnregistered ==
    /\ o_pc = "loop"
    /\ o_i <= Len(providers_list)
    /\ CurrentName \notin providers
    /\ errors' = Append(errors, ErrorEntry(CurrentName, NotConfiguredMsg))
    /\ o_i' = o_i + 1
    /\ UNCHANGED <<providers, providers_list, o_pc, o_ret, calls>>
    /\ UNCHANGED cdVars
    /\ UNCHANGED <<pollVars, active_providers, sessVars, cmdVars, reqVars>>

\* mutant of OrchInvoke: the call is started and the loop goes on without awaiting it
OrchInvoke_NoAwait ==
    /\ o_pc = "loop"
    /\ o_i <= Len(providers_list)
    /\ CurrentName \in providers
    /\ calls' = Append(calls, [NoCall EXCEPT !.index = o_i, !.name = CurrentName,
                                             !.status = "outstanding"])
    /\ o_i' = o_i + 1
    /\ UNCHANGED <<providers, providers_list, errors, o_pc, o_ret>>
    /\ UNCHANGED cdVars
    /\ UNCHANGED <<pollVars, active_providers, sessVars, cmdVars, reqVars>>

\* provider = self.providers[provider_name]; result = await provider.generate_image(config)
\* (up to the suspension at the await)
OrchInvoke ==
    /\ o_pc = "loop"
    /\ o_i <= Len(providers_list)
    /\ CurrentName \in providers
    /\ calls' = Append(calls, [NoCall EXCEPT !.index = o_i, !.name = CurrentName,
                                             !.status = "outstanding"])
    /\ o_pc' = "await"
    /\ UNCHANGED <<providers, providers_list, errors, o_i, o_ret>>
    /\ UNCHANGED cdVars
    /\ UNCHANGED <<pollVars, active_providers, sessVars, cmdVars, reqVars>>

\* mutant of OrchOnSuccess: the success is not returned, the loop goes on
OrchOnSuccess_Continue(r) ==
    /\ o_pc = "await"
    /\ calls' = EndCall("returned", r, NoText)
    /\ o_i' = o_i + 1
    /\ o_pc' = "loop"
    /\ UNCHANGED <<providers, providers_list, errors, o_ret>>
    /\ UNCHANGED cdVars
    /\ UNCHANGED <<pollVars, active_providers, sessVars, cmdVars, reqVars>>

\* the awaited call returns r with r.success: return result
OrchOnSuccess(r) ==
    /\ o_pc = "await"
    /\ calls' = EndCall("returned", r, NoText)
    /\ o_ret' = r
    /\ o_pc' = "done"
    /\ UNCHANGED <<providers, providers_list, errors, o_i>>
    /\ UNCHANGED cdVars
    /\ UNCHANGED <<pollVars, active_providers, sessVars, cmdVars, reqVars>>

\* the awaited call returns a failure carrying error_message m:
\* errors.append(f"{provider_name}: {error_msg}"), next candidate
OrchOnFailure(m) ==
    /\ o_pc = "await"
    /\ calls' = EndCall("returned", FailureResult(m), NoText)
    /\ errors' = Append(errors, ErrorEntry(CurrentName, FailureMessage(FailureResult(m))))
    /\ o_i' = o_i + 1
    /\ o_pc' = "loop"
    /\ UNCHANGED <<providers, providers_list, o_ret>>
    /\ UNCHANGED cdVars
    /\ UNCHANGED <<pollVars, active_providers, sessVars, cmdVars, reqVars>>

\* mutant of OrchOnException: the exception is not caught
OrchOnException_Propagate(d) ==
    /\ o_pc = "await"
    /\ calls' = EndCall("raised", NoResult, d)
    /\ o_pc' = "raised"
    /\ UNCHANGED <<providers, providers_list, errors, o_i, o_ret>>
    /\ UNCHANGED cdVars
    /\ UNCHANGED <<pollVars, active_providers, sessVars, cmdVars, reqVars>>

\* the awaited call raises an Exception with str(e) = d:
\* except Exception: errors.append(f"{provider_name}: 请求异常: {str(e)}"), next candidate
OrchOnException(d) ==
    /\ o_pc = "await"
    /\ calls' = EndCall("raised", NoResult, d)
    /\ errors' = Append(errors, ErrorEntry(CurrentName, ExceptionMessage(d)))
    /\ o_i' = o_i + 1
    /\ o_pc' = "loop"
    /\ UNCHANGED <<providers, providers_list, o_ret>>
    /\ UNCHANGED cdVars
    /\ UNCHANGED <<pollVars, active_providers, sessVars, cmdVars, reqVars>>

\* the loop is exhausted: build error_message and return the failure
OrchAggregate ==
    /\ o_pc = "loop"
    /\ o_i > Len(providers_list)
    /\ IF AggregateRaises(providers_list, errors)
       THEN /\ o_pc' = "raised"
            /\ o_ret' = o_ret
       ELSE /\ o_pc' = "done"
            /\ o_ret' = FailureResult(AggregateMessage(providers_list, errors))
    /\ UNCHANGED <<providers, providers_list, errors, o_i, calls>>
    /\ UNCHANGED cdVars
    /\ UNCHANGED <<pollVars, active_providers, sessVars, cmdVars, reqVars>>

----------------------------------------------------------------------------
(* _check_cooldown (src/main.py 154-197) *)

\* event.unified_msg_origin of the requests
Users == { "u1", "u2" }

\* the user of the /iti session
SessionUsers == { "u1" }

\* values the configuration gives to "cooldown_time", in seconds
CooldownTimes == { -1, 0, 1 }

\* the default of self.config.get("cooldown_time", 180)
DefaultCooldownTime == 180

\* the administrator lists the host may hold
AdminLists == { {}, {"u1"} }

\* the configuration dicts: "cooldown_time" set, or the key absent
Configs == { <<>> } \cup { [k \in {"cooldown_time"} |-> v] : v \in CooldownTimes }

\* dict.get(key, default)
ConfigGet(key, default) == IF key \in DOMAIN config THEN config[key] ELSE default

\* d[key] = value
Put(d, key, value) == [k \in DOMAIN d \cup {key} |-> IF k = key THEN value ELSE d[k]]

\* last_time of a call that did not read the record
NoTime == -1

NoCheck ==
    [user |-> "none", cooldown_time |-> 0, lookup_raised |-> FALSE,
     last_time |-> NoTime, ret |-> NoText]

\* the record of a call by u that read cooldown_time, and last_time if it got that far
Check(u, cooldown_time, lookup, last_time, ret) ==
    [user |-> u, cooldown_time |-> cooldown_time, lookup_raised |-> (lookup = "raises"),
     last_time |-> last_time, ret |-> ret]

\* f"请求冷却中，请 {minutes} 分 {seconds} 秒后再试" if minutes > 0
\* else f"请求冷却中，请 {seconds} 秒后再试", with remaining = int(cooldown_time - elapsed)
CooldownMessage(cooldown_time, elapsed) ==
    LET remaining == (cooldown_time * TicksPerSecond - elapsed) \div TicksPerSecond
        minutes == remaining \div 60
        seconds == remaining % 60
    IN  IF minutes > 0
        THEN <<"COOLDOWN_RETRY_IN", minutes, "MIN", seconds, "SEC">>
        ELSE <<"COOLDOWN_RETRY_IN", seconds, "SEC">>

\* mutant of CooldownDisabled: a duration of 0 no longer disables the guard
CooldownDisabled_Negative(cooldown_time) == cooldown_time < 0

\* if cooldown_time <= 0: return None
CooldownDisabled(cooldown_time) == cooldown_time <= 0

\* mutant of AdminBypass: the administrator list is ignored
AdminBypass_Never(u, lookup) == FALSE

\* admins = self.context.config_helper.get("admins_id", []); if user_id in admins: return None
\* (lookup = "raises": the lookup raised, the except clause logs and the check goes on)
AdminBypass(u, lookup) == lookup = "ok" /\ u \in admins

\* mutant of InCooldown: the boundary elapsed = cooldown_time is rejected too
InCooldown_Inclusive(elapsed, cooldown_time) == elapsed <= cooldown_time * TicksPerSecond

\* if elapsed < cooldown_time  (elapsed in ticks, cooldown_time in seconds)
InCooldown(elapsed, cooldown_time) == elapsed < cooldown_time * TicksPerSecond

\* return None without touching the record (guard disabled, or administrator)
CooldownPass(u, cooldown_time) ==
    /\ cd_call' = Check(u, cooldown_time, "ok", NoTime, NoText)
    /\ UNCHANGED user_last_request_time

\* mutant of CooldownReject: the rejected request restarts the cooldown
CooldownReject_Restart(u, cooldown_time, lookup) ==
    LET last_time == user_last_request_time[u]
    IN  /\ cd_call' = Check(u, cooldown_time, lookup, last_time,
                            CooldownMessage(cooldown_time, now - last_time))
        /\ user_last_request_time' = Put(user_last_request_time, u, now)

\* return the remaining-time message; the record is not written
CooldownReject(u, cooldown_time, lookup) ==
    LET last_time == user_last_request_time[u]
    IN  /\ cd_call' = Check(u, cooldown_time, lookup, last_time,
                            CooldownMessage(cooldown_time, now - last_time))
        /\ UNCHANGED user_last_request_time

\* mutant of CooldownAccept: the record of a user whose cooldown has run out
\* is dropped instead of overwritten
CooldownAccept_Evict(u, cooldown_time, lookup) ==
    /\ cd_call' = Check(u, cooldown_time, lookup,
                        IF u \in DOMAIN user_last_request_time
                        THEN user_last_request_time[u] ELSE NoTime,
                        NoText)
    /\ user_last_request_time' =
           IF u \in DOMAIN user_last_request_time
           THEN [k \in DOMAIN user_last_request_time \ {u} |-> user_last_request_time[k]]
           ELSE Put(user_last_request_time, u, now)

\* mutant of CooldownAccept: the accepted request leaves no timestamp
CooldownAccept_NoWrite(u, cooldown_time, lookup) ==
    /\ cd_call' = Check(u, cooldown_time, lookup,
                        IF u \in DOMAIN user_last_request_time
                        THEN user_last_request_time[u] ELSE NoTime,
                        NoText)
    /\ UNCHANGED user_last_request_time

\* self.user_last_request_time[user_id] = current_time; return None
CooldownAccept(u, cooldown_time, lookup) ==
    /\ cd_call' = Check(u, cooldown_time, lookup,
                        IF u \in DOMAIN user_last_request_time
                        THEN user_last_request_time[u] ELSE NoTime,
                        NoText)
    /\ user_last_request_time' = Put(user_last_request_time, u, now)

\* one call of _check_cooldown for user u, as its caller makes it; lookup tells
\* whether reading the administrator list returned it ("ok") or raised
\* ("raises"), when the call gets that far.  The method has no await: it runs
\* as one step.
CooldownStep(u, lookup) ==
    LET cooldown_time == ConfigGet("cooldown_time", DefaultCooldownTime)
    IN  /\ cd_seq' = 1 - cd_seq
        /\ IF CooldownDisabled(cooldown_time) THEN CooldownPass(u, cooldown_time)
           ELSE IF AdminBypass(u, lookup) THEN CooldownPass(u, cooldown_time)
           ELSE IF /\ u \in DOMAIN user_last_request_time
                   /\ InCooldown(now - user_last_request_time[u], cooldown_time)
                THEN CooldownReject(u, cooldown_time, lookup)
           ELSE CooldownAccept(u, cooldown_time, lookup)
        /\ UNCHANGED <<config, admins, now>>

\* one call of _check_cooldown for user u by a command that generates nothing
CheckCooldown(u, lookup) ==
    /\ CooldownStep(u, lookup)
    /\ UNCHANGED orchVars
    /\ UNCHANGED <<pollVars, active_providers>>

\* the wall clock advances
Tick ==
    /\ now < MaxTime
    /\ now' = now + 1
    /\ UNCHANGED <<config, admins, user_last_request_time, cd_call, cd_seq>>
    /\ UNCHANGED orchVars
    /\ UNCHANGED <<pollVars, active_providers, sessVars, cmdVars, reqVars>>

\* the wall clock is set back (time.time() is not monotonic)
ClockSetBack ==
    /\ \E t \in 0..(now - 1) : now' = t
    /\ UNCHANGED <<config, admins, user_last_request_time, cd_call, cd_seq>>
    /\ UNCHANGED orchVars
    /\ UNCHANGED <<pollVars, active_providers, sessVars, cmdVars, reqVars>>

\* the host changes "cooldown_time" in the configuration dict the plugin holds;
\* _check_cooldown reads it anew at every call
SetCooldownTime(c) ==
    /\ c # config
    /\ config' = c
    /\ UNCHANGED <<admins, user_last_request_time, now, cd_call, cd_seq>>
    /\ UNCHANGED orchVars
    /\ UNCHANGED <<pollVars, active_providers, sessVars, cmdVars, reqVars>>

----------------------------------------------------------------------------
(* TongyiProvider._wait_for_task_completion (src/providers/tongyi.py 179-243) *)

\* max_attempts = 60
MaxAttempts == 60

\* "查询任务失败: "
QueryFailedPrefix == <<"QUERY_TASK_FAILED", ":", " ">>

\* "查询任务异常: "
QueryExceptionPrefix == <<"QUERY_TASK_EXCEPTION", ":", " ">>

\* "图片生成失败: "
ImageFailedPrefix == <<"IMAGE_GENERATION_FAILED", ":", " ">>

\* "任务失败"
TaskFailedMsg == <<"TASK_FAILED">>

\* "任务完成但未返回图片"
NoImageMsg == <<"TASK_DONE_WITHOUT_IMAGE">>

\* "任务超时: 等待时间超过3分钟"
TaskTimeoutMsg == <<"TASK_TIMEOUT", ":", " ", "WAITED_OVER_3_MINUTES">>

\* ImageGenerationResult(success=True, image_url=url)
UrlResult(url) ==
    [success |-> TRUE, image_url |-> url, image_base64 |-> NoText, error_message |-> NoText]

\* A response to the status query.
\*   transport: "ok", or "error" when session.get or response.json() raises (detail = str(e))
\*   status:    the HTTP status
\*   message:   result["message"], NoText when the key is absent
\*   output:    whether result has the key "output"
\*   task_status, out_message: result["output"]["task_status"], result["output"]["message"]
\*   depth:     how far result["output"]["choices"][0]["message"]["content"][0]["image"]
\*              exists: 0 no "choices", 1 choices empty, 2 no "message", 3 content
\*              empty or absent, 4 no "image" in content[0], 5 the image is there
Response(transport, detail, status, message, output, task_status, out_message, depth, image) ==
    [transport |-> transport, detail |-> detail, status |-> status, message |-> message,
     output |-> output, task_status |-> task_status, out_message |-> out_message,
     depth |-> depth, image |-> image]

NoResponse == Response("none", NoText, "0", NoText, FALSE, "absent", NoText, 0, NoText)

PollResponses ==
    { Response("error", <<"t">>, "0", NoText, FALSE, "absent", NoText, 0, NoText),
      Response("ok", NoText, "500", <<"m">>, FALSE, "absent", NoText, 0, NoText),
      Response("ok", NoText, "429", NoText, FALSE, "absent", NoText, 0, NoText),
      Response("ok", NoText, "500", NoText, TRUE, "SUCCEEDED", NoText, 5, <<"h">>),
      Response("ok", NoText, "200", NoText, FALSE, "absent", NoText, 0, NoText),
      Response("ok", NoText, "200", <<"m">>, FALSE, "absent", NoText, 0, NoText),
      Response("ok", NoText, "200", NoText, TRUE, "absent", NoText, 0, NoText),
      Response("ok", NoText, "200", NoText, TRUE, "PENDING", NoText, 0, NoText),
      Response("ok", NoText, "200", NoText, TRUE, "RUNNING", NoText, 5, <<"h">>),
      Response("ok", NoText, "200", NoText, TRUE, "FAILED", <<"f">>, 0, NoText),
      Response("ok", NoText, "200", NoText, TRUE, "FAILED", NoText, 0, NoText),
      Response("ok", NoText, "200", NoText, TRUE, "SUCCEEDED", NoText, 5, <<"h">>) }
    \cup { Response("ok", NoText, "200", NoText, TRUE, "SUCCEEDED", NoText, d, NoText)
             : d \in 0..4 }

\* the return statement a response leads to; none (terminal = FALSE) when the
\* loop goes on: "output" missing (continue), or a task_status that is neither
\* SUCCEEDED nor FAILED
PollVerdict(terminal, result) == [terminal |-> terminal, result |-> result]

\* mutant of PollOutcome: SUCCEEDED without an image is polled again
PollOutcome_RetryNoImage(resp) ==
    IF resp.transport = "error"
    THEN PollVerdict(TRUE, FailureResult(QueryExceptionPrefix \o resp.detail))
    ELSE IF resp.status # "200"
    THEN PollVerdict(TRUE, FailureResult(QueryFailedPrefix \o
             (IF resp.message = NoText THEN <<"HTTP", " ", resp.status>> ELSE resp.message)))
    ELSE IF ~resp.output THEN PollVerdict(FALSE, NoResult)
    ELSE IF resp.task_status = "SUCCEEDED"
    THEN IF resp.depth = 5 THEN PollVerdict(TRUE, UrlResult(resp.image))
         ELSE PollVerdict(FALSE, NoResult)
    ELSE IF resp.task_status = "FAILED"
    THEN PollVerdict(TRUE, FailureResult(ImageFailedPrefix \o
             (IF resp.out_message = NoText THEN TaskFailedMsg ELSE resp.out_message)))
    ELSE PollVerdict(FALSE, NoResult)

\* the body of the try block, lines 192-238, applied to one response
PollOutcome(resp) ==
    IF resp.transport = "error"
    THEN PollVerdict(TRUE, FailureResult(QueryExceptionPrefix \o resp.detail))
    ELSE IF resp.status # "200"
    THEN PollVerdict(TRUE, FailureResult(QueryFailedPrefix \o
             (IF resp.message = NoText THEN <<"HTTP", " ", resp.status>> ELSE resp.message)))
    ELSE IF ~resp.output THEN PollVerdict(FALSE, NoResult)
    ELSE IF resp.task_status = "SUCCEEDED"
    THEN IF resp.depth = 5 THEN PollVerdict(TRUE, UrlResult(resp.image))
         ELSE PollVerdict(TRUE, FailureResult(NoImageMsg))
    ELSE IF resp.task_status = "FAILED"
    THEN PollVerdict(TRUE, FailureResult(ImageFailedPrefix \o
             (IF resp.out_message = NoText THEN TaskFailedMsg ELSE resp.out_message)))
    ELSE PollVerdict(FALSE, NoResult)

\* the call _wait_for_task_completion(task_id, api_key, session): attempt = 0
PollStart ==
    /\ p_pc = "idle"
    /\ p_pc' = "loop"
    /\ attempt' = 0
    /\ UNCHANGED <<queries, last_response, p_ret>>
    /\ UNCHANGED tongyiVars
    /\ UNCHANGED <<orchVars, cdVars, active_providers, sessVars, cmdVars, reqVars>>

\* mutant of PollQuery: the attempt is not counted
PollQuery_NoCount ==
    /\ p_pc = "loop"
    /\ attempt < MaxAttempts
    /\ queries' = queries + 1
    /\ p_pc' = "await"
    /\ UNCHANGED <<attempt, last_response, p_ret>>
    /\ UNCHANGED tongyiVars
    /\ UNCHANGED <<orchVars, cdVars, active_providers, sessVars, cmdVars, reqVars>>

\* while attempt < max_attempts: await asyncio.sleep(3); attempt += 1; session.get(...)
\* (up to the suspension at the request)
PollQuery ==
    /\ p_pc = "loop"
    /\ attempt < MaxAttempts
    /\ attempt' = attempt + 1
    /\ queries' = queries + 1
    /\ p_pc' = "await"
    /\ UNCHANGED <<last_response, p_ret>>
    /\ UNCHANGED tongyiVars
    /\ UNCHANGED <<orchVars, cdVars, active_providers, sessVars, cmdVars, reqVars>>

\* the query is answered by resp: return, or go round the loop again
PollRespond(resp) ==
    /\ p_pc = "await"
    /\ last_response' = resp
    /\ IF PollOutcome(resp).terminal
       THEN /\ p_pc' = "done"
            /\ p_ret' = PollOutcome(resp).result
       ELSE /\ p_pc' = "loop"
            /\ p_ret' = p_ret
    /\ UNCHANGED <<attempt, queries>>
    /\ UNCHANGED tongyiVars
    /\ UNCHANGED <<orchVars, cdVars, active_providers, sessVars, cmdVars, reqVars>>

\* the while condition fails: return the timeout failure
PollGiveUp ==
    /\ p_pc = "loop"
    /\ attempt >= MaxAttempts
    /\ p_pc' = "done"
    /\ p_ret' = FailureResult(TaskTimeoutMsg)
    /\ UNCHANGED <<attempt, queries, last_response>>
    /\ UNCHANGED tongyiVars
    /\ UNCHANGED <<orchVars, cdVars, active_providers, sessVars, cmdVars, reqVars>>

----------------------------------------------------------------------------
(* TongyiProvider.generate_image, generate_image_edit and _map_size          *)
(* (src/providers/tongyi.py 23-177, 245-265)                                 *)

\* values of config.width and config.height
Dims == { -9, 0, 9, 16, 768, 1024, 1280 }

\* what a call has produced: nothing yet, a returned ImageGenerationResult, or
\* an exception that left the method
NoOutcome == [kind |-> "none", result |-> NoResult, exception |-> NoText]

Returns(r) == [kind |-> "returned", result |-> r, exception |-> NoText]

Raises(e) == [kind |-> "raised", result |-> NoResult, exception |-> e]

\* the value of g_call before there is a call
NoGenerateCall == [op |-> "none", width |-> 0, height |-> 0]

\* the exception of a / b with b = 0
ZeroDivisionError == <<"ZeroDivisionError">>

\* a / b >= 16/9 for b # 0, on the integers
RatioAtLeast16To9(a, b) == IF b > 0 THEN 9 * a >= 16 * b ELSE 9 * a <= 16 * b

\* what _map_size(width, height) produces: the size it returns, or the
\* ZeroDivisionError of width / height or height / width
MapSize(width, height) ==
    IF width = height
    THEN Returns(IF width <= 768 THEN "768*768"
                 ELSE IF width <= 1024 THEN "1024*1024"
                 ELSE "1280*1280")
    ELSE IF width > height
    THEN IF height = 0 THEN Raises(ZeroDivisionError)
         ELSE Returns(IF RatioAtLeast16To9(width, height) THEN "1280*720" ELSE "1280*960")
    ELSE IF width = 0 THEN Raises(ZeroDivisionError)
         ELSE Returns(IF RatioAtLeast16To9(height, width) THEN "720*1280" ELSE "960*1280")

\* "通义万相API错误: "
TongyiApiErrorPrefix == <<"TONGYI_API_ERROR", ":", " ">>

\* "通义万相请求异常: "
TongyiRequestExceptionPrefix == <<"TONGYI_REQUEST_EXCEPTION", ":", " ">>

\* "创建任务失败: "
CreateTaskFailedPrefix == <<"CREATE_TASK_FAILED", ":", " ">>

\* "无效的响应格式"
InvalidResponseMsg == <<"INVALID_RESPONSE_FORMAT">>

\* "通义万相图片编辑请求异常: "
TongyiEditExceptionPrefix == <<"TONGYI_EDIT_REQUEST_EXCEPTION", ":", " ">>

\* f"HTTP {response.status}"
HttpStatus(status) == <<"HTTP", " ", status>>

\* A response to the POST of generate_image or generate_image_edit.
\*   transport: "ok", or "error" when session.post, response.json() or
\*              response.text() raises (detail = str(e))
\*   status:    the HTTP status
\*   json:      whether the body is a JSON object
\*   message:   result["message"], NoText when the key is absent
\*   text:      the body, when it is not JSON
\*   depth:     generate_image: how far
\*              result["output"]["choices"][0]["message"]["content"][0]["image"]
\*              exists: 0 no "output", 1 no "choices", 2 choices empty, 3 no
\*              "message", 4 content empty or absent, 5 no "image", 6 the image
\*              is there; generate_image_edit: 0 no "output", 1 no "task_id",
\*              2 the task id is there
\*   image:     the image URL
PostResponse(transport, detail, status, json, message, text, depth, image) ==
    [transport |-> transport, detail |-> detail, status |-> status, json |-> json,
     message |-> message, text |-> text, depth |-> depth, image |-> image]

GenerateResponses ==
    { PostResponse("error", <<"t">>, "0", FALSE, NoText, NoText, 0, NoText),
      PostResponse("ok", NoText, "200", TRUE, NoText, NoText, 6, <<"h">>),
      PostResponse("ok", NoText, "200", TRUE, <<"m">>, NoText, 0, NoText),
      PostResponse("ok", NoText, "500", TRUE, <<"m">>, NoText, 0, NoText),
      PostResponse("ok", NoText, "500", TRUE, NoText, NoText, 0, NoText),
      PostResponse("ok", NoText, "500", FALSE, NoText, <<"x">>, 0, NoText) }
    \cup { PostResponse("ok", NoText, "200", TRUE, NoText, NoText, d, NoText) : d \in 0..5 }

EditResponses ==
    { PostResponse("error", <<"t">>, "0", FALSE, NoText, NoText, 0, NoText),
      PostResponse("ok", NoText, "500", TRUE, <<"m">>, NoText, 0, NoText),
      PostResponse("ok", NoText, "500", TRUE, NoText, NoText, 2, NoText),
      PostResponse("ok", NoText, "200", TRUE, NoText, NoText, 0, NoText),
      PostResponse("ok", NoText, "200", TRUE, NoText, NoText, 1, NoText),
      PostResponse("ok", NoText, "200", TRUE, NoText, NoText, 2, NoText) }

\* the try block of generate_image, lines 67-107, applied to one response
GenerateOutcome(resp) ==
    IF resp.transport = "error"
    THEN FailureResult(TongyiRequestExceptionPrefix \o resp.detail)
    ELSE IF resp.status = "200"
    THEN IF resp.depth = 6 THEN UrlResult(resp.image)
         ELSE FailureResult(TongyiApiErrorPrefix \o
                  (IF resp.message = NoText THEN UnknownErrorMsg ELSE resp.message))
    ELSE FailureResult(TongyiApiErrorPrefix \o
             (IF ~resp.json THEN HttpStatus(resp.status) \o Sep \o resp.text
              ELSE IF resp.message = NoText THEN HttpStatus(resp.status)
              ELSE resp.message))

\* the call generate_image(config) up to its first await: the request is
\* built, size = self._map_size(config.width, config.height) included, before
\* the try block is entered; an exception of _map_size leaves the method
TongyiGenerateImage(width, height) ==
    /\ g_pc = "idle"
    /\ g_call' = [op |-> "generate_image", width |-> width, height |-> height]
    /\ IF MapSize(width, height).kind = "raised"
       THEN /\ g_pc' = "done"
            /\ g_ret' = Raises(MapSize(width, height).exception)
       ELSE /\ g_pc' = "post"
            /\ UNCHANGED g_ret
    /\ UNCHANGED <<p_pc, attempt, queries, last_response, p_ret>>
    /\ UNCHANGED <<orchVars, cdVars, active_providers, sessVars, cmdVars, reqVars>>

\* the POST of generate_image is answered by resp: return the result
TongyiGenerateRespond(resp) ==
    /\ g_pc = "post"
    /\ g_call.op = "generate_image"
    /\ g_pc' = "done"
    /\ g_ret' = Returns(GenerateOutcome(resp))
    /\ UNCHANGED g_call
    /\ UNCHANGED <<p_pc, attempt, queries, last_response, p_ret>>
    /\ UNCHANGED <<orchVars, cdVars, active_providers, sessVars, cmdVars, reqVars>>

\* the call generate_image_edit(prompt, images) up to its first await; no size
\* is computed
TongyiGenerateImageEdit ==
    /\ g_pc = "idle"
    /\ g_call' = [op |-> "generate_image_edit", width |-> 0, height |-> 0]
    /\ g_pc' = "post"
    /\ UNCHANGED g_ret
    /\ UNCHANGED <<p_pc, attempt, queries, last_response, p_ret>>
    /\ UNCHANGED <<orchVars, cdVars, active_providers, sessVars, cmdVars, reqVars>>

\* the POST of generate_image_edit is answered by resp: return a failure, or
\* go on to _wait_for_task_completion with the task id
TongyiEditRespond(resp) ==
    /\ g_pc = "post"
    /\ g_call.op = "generate_image_edit"
    /\ IF resp.transport = "error"
       THEN /\ g_pc' = "done"
            /\ g_ret' = Returns(FailureResult(TongyiEditExceptionPrefix \o resp.detail))
       ELSE IF resp.status # "200"
       THEN /\ g_pc' = "done"
            /\ g_ret' = Returns(FailureResult(CreateTaskFailedPrefix \o
                            (IF resp.message = NoText THEN HttpStatus(resp.status)
                             ELSE resp.message)))
       ELSE IF resp.depth < 2
       THEN /\ g_pc' = "done"
            /\ g_ret' = Returns(FailureResult(CreateTaskFailedPrefix \o InvalidResponseMsg))
       ELSE /\ g_pc' = "polling"
            /\ UNCHANGED g_ret
    /\ UNCHANGED g_call
    /\ UNCHANGED <<p_pc, attempt, queries, last_response, p_ret>>
    /\ UNCHANGED <<orchVars, cdVars, active_providers, sessVars, cmdVars, reqVars>>

\* return await self._wait_for_task_completion(task_id, api_key, session)
TongyiEditReturn ==
    /\ g_pc = "polling"
    /\ p_pc = "done"
    /\ g_pc' = "done"
    /\ g_ret' = Returns(p_ret)
    /\ UNCHANGED g_call
    /\ UNCHANGED <<p_pc, attempt, queries, last_response, p_ret>>
    /\ UNCHANGED <<orchVars, cdVars, active_providers, sessVars, cmdVars, reqVars>>

----------------------------------------------------------------------------
(* _initialize_providers (src/main.py 137-152) *)

\* the order of provider_mappings, which is the order of self.providers
RegistrationOrder == << <<"z", "p">>, <<"t", "y">> >>

\* the name the edit pipeline looks up: 'tongyi'
Tongyi == <<"t", "y">>

\* what provider.is_configured() does: returns True, returns False, or raises
ConfiguredOutcomes == { "true", "false", "raises" }

\* for name, provider in self.providers.items():
\*     try: if provider.is_configured(): self.active_providers.append(name)
\*     except Exception: logger.error(...)
RECURSIVE InitializeProviders(_, _, _)
InitializeProviders(registered, outcome, i) ==
    IF i > Len(RegistrationOrder) THEN <<>>
    ELSE LET name == RegistrationOrder[i]
         IN  (IF name \in registered /\ outcome[name] = "true" THEN <<name>> ELSE <<>>)
             \o InitializeProviders(registered, outcome, i + 1)

\* the lists _initialize_providers can leave in self.active_providers
ActiveLists(registered) ==
    { InitializeProviders(registered, outcome, 1) : outcome \in [registered -> ConfiguredOutcomes] }

\* every registered provider is configured
AllActive(registered) ==
    InitializeProviders(registered, [n \in registered |-> "true"], 1)

Range(seq) == { seq[i] : i \in DOMAIN seq }

----------------------------------------------------------------------------
(* image_to_image_command and wait_for_images (src/main.py 247-324),         *)
(* _handle_image_edit_generation (src/main.py 326-364)                       *)

\* most image components in one inbound event
MaxEventImages == 2

\* the image cap of wait_for_images: if len(images) >= 3
MaxImages == 3

\* the default of self.config.get("image_edit_timeout", 30)
DefaultEditTimeout == 30

\* values the configuration gives to "image_edit_timeout", in seconds
EditTimeouts == { 1 }

\* the configuration dicts with "image_edit_timeout" set
EditConfigs == { [k \in {"image_edit_timeout"} |-> v] : v \in EditTimeouts }

\* the command word "/iti" and the finish word "完成", one character each
ItiWord == "/iti"
FinishWord == "FINISH"

\* message_str of the /iti events
ItiMessages ==
    { <<ItiWord>>,
      <<ItiWord, " ">>,
      <<" ", ItiWord, " ", " ", "a", " ", "b", " ">> }

\* message_str of the events that reach an open session
EventTexts == { <<>>, <<"x">>, <<FinishWord>>, <<" ", FinishWord, " ">>, <<FinishWord, "x">> }

\* an Image component: where its data is (img.url, img.file, or neither), the
\* data, and what fetching it does: "ok", "http_error" (status other than 200),
\* "raises" (the request or the read raises)
Img(src, data, fetch) == [src |-> src, data |-> data, fetch |-> fetch]

ImageComponents ==
    { Img("url", "a", "ok"),
      Img("file", "b", "ok"),
      Img("url", "c", "http_error"),
      Img("file", "c", "raises") }

\* an inbound event: its message_str and the Image components of its message chain
Event(message_str, image_components) ==
    [message_str |-> message_str, image_components |-> image_components]

\* the inbound events: a text alone, images alone, and the finish word with an image
Events ==
    { Event(t, <<>>) : t \in EventTexts }
    \cup { Event(<<>>, l) : l \in SeqsUpTo(ImageComponents, MaxEventImages) }
    \cup { Event(<<FinishWord>>, <<Img("url", "a", "ok")>>) }

\* error_message values of a failed generate_image_edit
EditErrorMessages == { NoText, <<"q">> }

\* the events with at most one Image component
SmallEvents == { ev \in Events : Len(ev.image_components) <= 1 }

\* str.strip() on a text of " " and other characters
RECURSIVE LStrip(_)
LStrip(s) == IF s # <<>> /\ Head(s) = " " THEN LStrip(Tail(s)) ELSE s

RECURSIVE RStrip(_)
RStrip(s) == IF s # <<>> /\ s[Len(s)] = " " THEN RStrip(SubSeq(s, 1, Len(s) - 1)) ELSE s

Strip(s) == RStrip(LStrip(s))

\* position of the first " " of s, or 0
FirstSpace(s) ==
    IF \E i \in DOMAIN s : s[i] = " "
    THEN CHOOSE i \in DOMAIN s : s[i] = " " /\ \A j \in 1..(i - 1) : s[j] # " "
    ELSE 0

\* str.split(maxsplit=1): the first word, and the rest without its leading blanks
SplitMax1(s) ==
    LET t == LStrip(s)
        i == FirstSpace(t)
    IN  IF t = <<>> THEN <<>>
        ELSE IF i = 0 THEN <<t>>
        ELSE LET rest == LStrip(SubSeq(t, i + 1, Len(t)))
             IN  IF rest = <<>> THEN <<SubSeq(t, 1, i - 1)>>
                 ELSE <<SubSeq(t, 1, i - 1), rest>>

\* f"data:image/png;base64,{base64.b64encode(image_data).decode('utf-8')}"
DataUrl(image_data) == <<"data:image/png;base64,", "b64", image_data>>

\* "请提供编辑描述文字。..."
EditUsageMsg == <<"EDIT_USAGE">>

\* f"请发送图片，发送完毕请发送\"完成\"。\n超时时间: {timeout}秒"
SendImagesMsg(t) == <<"SEND_IMAGES_THEN_FINISH", "TIMEOUT", t, "SEC">>

\* "未收到任何图片，操作已取消"
CancelledMsg == <<"NO_IMAGE_CANCELLED">>

\* f"收到 {len(images)} 张图片，正在生成编辑后的图片..."
GeneratingMsg(n) == <<"GOT", n, "IMAGES_GENERATING">>

\* "最多支持3张图片，已忽略额外的图片"
MaxReachedMsg == <<"AT_MOST_3_IMAGES_EXTRA_IGNORED">>

\* f"已收到 {len(images)} 张图片，继续发送图片或发送\"完成\"结束"
ReceivedMsg(n) == <<"RECEIVED", n, "IMAGES_SEND_MORE_OR_FINISH">>

\* "请发送图片或输入\"完成\""
ReminderMsg == <<"SEND_IMAGE_OR_FINISH">>

\* "图片编辑会话已超时，请重新开始"
SessionTimeoutMsg == <<"EDIT_SESSION_TIMED_OUT">>

\* "图片编辑功能需要配置通义万相API"
EditNeedsTongyiMsg == <<"EDIT_NEEDS_TONGYI">>

\* "生成图片失败"
EditDefaultErrorMsg == <<"GENERATE_IMAGE_FAILED">>

\* f"生成失败: {error_msg}" with error_msg = result.error_message or "生成图片失败"
EditFailedMsg(m) ==
    <<"GENERATE_FAILED", ":", " ">> \o (IF m = NoText THEN EditDefaultErrorMsg ELSE m)

\* f"图片编辑失败: {str(e)}"
EditExceptionMsg(d) == <<"IMAGE_EDIT_FAILED", ":", " ">> \o d

\* event.image_result(...) of a successful result
ImageMsg(r) == <<"IMAGE">> \o r.image_url \o r.image_base64

\* the record of one tongyi_provider.generate_image_edit(prompt, images) call
EditCall(name, p, imgs) == [provider |-> name, prompt |-> p, images |-> imgs]

\* "图片编辑功能仅支持通义万相"
EditOnlyTongyiMsg == <<"EDIT_ONLY_TONGYI">>

\* the value of timeout, started_at and kept_at while there is no session
NoSession == 0

\* mutant of ImageCapReached: the cap lets a fourth image in
ImageCapReached_Off(imgs) == Len(imgs) > MaxImages

\* if len(images) >= 3
ImageCapReached(imgs) == Len(imgs) >= MaxImages

\* what one Image component adds to the list: its data URL when the data is
\* fetched (url with status 200, or a readable file), nothing when the status is
\* not 200, when the fetch raises, or when the component has neither url nor file
Fetched(img) ==
    IF img.src \in {"url", "file"} /\ img.fetch = "ok" THEN <<DataUrl(img.data)>> ELSE <<>>

\* the for loop over image_components, from component i on: the list it leaves
\* and whether it sent the "max reached" notice and broke off
RECURSIVE CollectImages(_, _, _)
CollectImages(imgs, comps, i) ==
    IF i > Len(comps) THEN [images |-> imgs, capped |-> FALSE]
    ELSE IF ImageCapReached(imgs) THEN [images |-> imgs, capped |-> TRUE]
    ELSE CollectImages(imgs \o Fetched(comps[i]), comps, i + 1)

\* the session timer, started at kept_at for timeout seconds, has run out
\* (session_waiter raises TimeoutError in the waiting command)
TimerDue == now - kept_at >= timeout * TicksPerSecond

\* the session timer has not fired yet; at the very instant it runs out the
\* timer and an inbound event race
TimerLive == now - kept_at <= timeout * TicksPerSecond

\* mutant of KeepSession: the timer is left running from where it was
KeepSession_NoReset == UNCHANGED kept_at

\* mutant of KeepSession: the timeout is added to the time that is left
KeepSession_Extend == kept_at' = kept_at + timeout * TicksPerSecond

\* controller.keep(timeout=timeout, reset_timeout=True): the timer restarts
\* now, for the full timeout
KeepSession == kept_at' = now

\* mutant of FinishWithoutImages: the empty list is handed to the edit pipeline
FinishWithoutImages_Generate ==
    /\ sent' = <<GeneratingMsg(Len(images))>>
    /\ edit_calls' = Append(edit_calls, EditCall(Tongyi, prompt, images))
    /\ iti_pc' = "editing"

\* "完成" with len(images) == 0: send the notice, controller.stop(), return
FinishWithoutImages ==
    /\ sent' = <<CancelledMsg>>
    /\ iti_pc' = "cancelled"
    /\ UNCHANGED edit_calls

\* mutant of FinishWithImages: the session is not stopped
FinishWithImages_NoStop ==
    /\ sent' = <<GeneratingMsg(Len(images))>>
    /\ edit_calls' = Append(edit_calls, EditCall(Tongyi, prompt, images))
    /\ iti_pc' = "waiting"

\* "完成" with images: send the notice, controller.stop(), then
\* _handle_image_edit_generation up to its await of generate_image_edit
FinishWithImages ==
    IF Tongyi \notin Range(active_providers)
    THEN /\ sent' = <<GeneratingMsg(Len(images)), EditNeedsTongyiMsg>>
         /\ iti_pc' = "completed"
         /\ UNCHANGED edit_calls
    ELSE IF Tongyi \notin providers
    THEN /\ sent' = <<GeneratingMsg(Len(images)), EditOnlyTongyiMsg>>
         /\ iti_pc' = "completed"
         /\ UNCHANGED edit_calls
    ELSE /\ sent' = <<GeneratingMsg(Len(images))>>
         /\ edit_calls' = Append(edit_calls, EditCall(Tongyi, prompt, images))
         /\ iti_pc' = "editing"

\* the /iti command of user u with message_str msg, up to its await of
\* wait_for_images: the cooldown check, the argument check, and the session
ItiStep(u, lookup, msg) ==
    /\ iti_pc = "idle"
    /\ CheckCooldown(u, lookup)
    /\ LET args == SplitMax1(Strip(msg))
       IN  IF cd_call'.ret # NoText
           THEN /\ sent' = <<cd_call'.ret>>
                /\ UNCHANGED <<iti_pc, iti_user, prompt, timeout, images, started_at,
                               kept_at, last_event_at>>
           ELSE IF Len(args) < 2
           THEN /\ sent' = <<EditUsageMsg>>
                /\ UNCHANGED <<iti_pc, iti_user, prompt, timeout, images, started_at,
                               kept_at, last_event_at>>
           ELSE /\ prompt' = Strip(args[2])
                /\ timeout' = ConfigGet("image_edit_timeout", DefaultEditTimeout)
                /\ sent' = <<SendImagesMsg(timeout')>>
                /\ images' = <<>>
                /\ iti_user' = u
                /\ iti_pc' = "waiting"
                /\ started_at' = now
                /\ kept_at' = now
                /\ last_event_at' = now
    /\ UNCHANGED <<edit_calls, ev_routed>>
    /\ UNCHANGED cmdVars

\* the /iti command of a user, with no other /iti event in flight
ItiCommand(u, lookup, msg) ==
    /\ ItiStep(u, lookup, msg)
    /\ UNCHANGED reqVars

\* wait_for_images on an inbound event ev of the session's user
SessionEvent(ev) ==
    /\ iti_pc = "waiting"
    /\ TimerLive
    /\ ev_routed' = TRUE
    /\ last_event_at' = now
    /\ IF Strip(ev.message_str) = <<FinishWord>>
       THEN /\ IF Len(images) = 0 THEN FinishWithoutImages ELSE FinishWithImages
            /\ UNCHANGED <<images, kept_at>>
       ELSE /\ IF ev.image_components # <<>>
               THEN LET c == CollectImages(images, ev.image_components, 1)
                    IN  /\ images' = c.images
                        /\ sent' = (IF c.capped THEN <<MaxReachedMsg>> ELSE <<>>)
                                   \o <<ReceivedMsg(Len(c.images))>>
               ELSE /\ sent' = <<ReminderMsg>>
                    /\ UNCHANGED images
            /\ KeepSession
            /\ UNCHANGED <<iti_pc, edit_calls>>
    /\ UNCHANGED <<iti_user, prompt, timeout, started_at>>
    /\ UNCHANGED <<orchVars, cdVars, pollVars, active_providers, cmdVars, reqVars>>

\* mutant of TimeoutNotice: the timeout goes unreported
TimeoutNotice_None == <<>>

\* except TimeoutError: yield event.plain_result("图片编辑会话已超时，请重新开始")
TimeoutNotice == <<SessionTimeoutMsg>>

\* the session timer fires: await wait_for_images(event) raises TimeoutError
SessionExpire ==
    /\ iti_pc = "waiting"
    /\ TimerDue
    /\ iti_pc' = "expired"
    /\ sent' = TimeoutNotice
    /\ UNCHANGED <<iti_user, prompt, timeout, images, started_at, kept_at, last_event_at,
                   edit_calls, ev_routed>>
    /\ UNCHANGED <<orchVars, cdVars, pollVars, active_providers, cmdVars, reqVars>>

\* an inbound event of the user when the session is over (stopped or timed
\* out): it is not given to wait_for_images
LateEvent(ev) ==
    /\ iti_pc \in {"editing", "completed", "cancelled", "expired"}
    /\ ev_routed' = FALSE
    /\ sent' = <<>>
    /\ UNCHANGED <<iti_pc, iti_user, prompt, timeout, images, started_at, kept_at,
                   last_event_at, edit_calls>>
    /\ UNCHANGED <<orchVars, cdVars, pollVars, active_providers, cmdVars, reqVars>>

\* generate_image_edit returns r: the image, or "生成失败: ..."
EditReturns(r) ==
    /\ iti_pc = "editing"
    /\ sent' = <<IF r.success THEN ImageMsg(r) ELSE EditFailedMsg(r.error_message)>>
    /\ iti_pc' = "completed"
    /\ UNCHANGED <<iti_user, prompt, timeout, images, started_at, kept_at, last_event_at,
                   edit_calls, ev_routed>>
    /\ UNCHANGED <<orchVars, cdVars, pollVars, active_providers, cmdVars, reqVars>>

\* generate_image_edit raises: "图片编辑失败: ..."
EditRaises(d) ==
    /\ iti_pc = "editing"
    /\ sent' = <<EditExceptionMsg(d)>>
    /\ iti_pc' = "completed"
    /\ UNCHANGED <<iti_user, prompt, timeout, images, started_at, kept_at, last_event_at,
                   edit_calls, ev_routed>>
    /\ UNCHANGED <<orchVars, cdVars, pollVars, active_providers, cmdVars, reqVars>>

----------------------------------------------------------------------------
(* text_to_image_command, the provider-specific commands (src/main.py 199-245) *)
(* and _handle_image_generation (src/main.py 366-427)                          *)

\* most /tti events of one user dispatched at a time
MaxPending == 2

\* the command word of a generation command, one character
TtiWord == "/tti"

\* message_str of the generation commands
TtiMessages ==
    { <<TtiWord>>,
      <<" ", TtiWord, " ", " ", "a", " ", "b", " ">> }

\* specific_provider = None
NoName == NoText

\* str.split(): the words of s
RECURSIVE Words(_)
Words(s) ==
    LET t == LStrip(s)
        i == FirstSpace(t)
    IN  IF t = <<>> THEN <<>>
        ELSE IF i = 0 THEN <<t>>
        ELSE <<SubSeq(t, 1, i - 1)>> \o Words(SubSeq(t, i + 1, Len(t)))

\* event.message_str.strip().split()[1:]
Args(msg) == LET w == Words(Strip(msg)) IN IF w = <<>> THEN <<>> ELSE Tail(w)

\* self._get_help_text()
HelpMsg == <<"HELP">>

\* f"供应商 {specific_provider} 未配置"
ProviderNotConfiguredMsg(name) == <<"PROVIDER", " ">> \o name \o <<" ", "NOT_CONFIGURED">>

\* f"供应商 {specific_provider} 配置无效或不可用"
ProviderUnavailableMsg(name) == <<"PROVIDER", " ">> \o name \o <<" ", "INVALID_OR_UNAVAILABLE">>

\* f"正在使用 {specific_provider} 生成图片: {prompt}"
UsingProviderMsg(name, p) == <<"USING", " ">> \o name \o <<" ", "GENERATING", ":", " ">> \o p

\* "当前没有可用的文生图服务，请检查配置"
NoServiceMsg == <<"NO_SERVICE_AVAILABLE">>

\* f"正在生成图片: {prompt}"
GeneratingImageMsg(p) == <<"GENERATING", ":", " ">> \o p

\* mutant of SpecificProviderUsable: a registered provider passes
SpecificProviderUsable_Registered(name) == name \in providers

\* the negation of: if specific_provider not in self.active_providers
SpecificProviderUsable(name) == name \in Range(active_providers)

\* _handle_image_generation(event, specific), up to its await of
\* _generate_with_providers or its return
HandleImageGeneration(msg, specific) ==
    LET args == Args(msg)
        p == Join(<<" ">>, args)
    IN  /\ tti_specific' = specific
        /\ IF args = <<>>
           THEN /\ tti_reply' = <<HelpMsg>>
                /\ UNCHANGED <<tti_pc, orchVars>>
           ELSE IF specific # NoName
           THEN IF ~SpecificProviderUsable(specific)
                THEN /\ tti_reply' = << IF specific \notin providers
                                        THEN ProviderNotConfiguredMsg(specific)
                                        ELSE ProviderUnavailableMsg(specific) >>
                     /\ UNCHANGED <<tti_pc, orchVars>>
                ELSE /\ tti_reply' = <<UsingProviderMsg(specific, p)>>
                     /\ GenerateStep(<<specific>>)
                     /\ tti_pc' = "generating"
           ELSE IF active_providers = <<>>
                THEN /\ tti_reply' = <<NoServiceMsg>>
                     /\ UNCHANGED <<tti_pc, orchVars>>
                ELSE /\ tti_reply' = <<GeneratingImageMsg(p)>>
                     /\ GenerateStep(active_providers)
                     /\ tti_pc' = "generating"

\* mutant of TtiCommand: the request is validated before the cooldown check
TtiCommand_ValidateFirst(u, lookup, msg) ==
    /\ tti_pc = "idle"
    /\ IF Args(msg) = <<>> \/ active_providers = <<>>
       THEN /\ tti_reply' = <<IF Args(msg) = <<>> THEN HelpMsg ELSE NoServiceMsg>>
            /\ tti_specific' = NoName
            /\ UNCHANGED <<tti_pc, orchVars>>
            /\ UNCHANGED cdVars
       ELSE /\ CooldownStep(u, lookup)
            /\ IF cd_call'.ret # NoText
               THEN /\ tti_reply' = <<cd_call'.ret>>
                    /\ UNCHANGED <<tti_pc, tti_specific, orchVars>>
               ELSE HandleImageGeneration(msg, NoName)
    /\ UNCHANGED <<pollVars, active_providers, sessVars>>

\* mutant of TtiCommand: the cooldown message does not end the command
TtiCommand_NoReturn(u, lookup, msg) ==
    /\ tti_pc = "idle"
    /\ CooldownStep(u, lookup)
    /\ HandleImageGeneration(msg, NoName)
    /\ UNCHANGED <<pollVars, active_providers, sessVars>>

\* /tti of user u: the cooldown check, then _handle_image_generation(event, None)
TtiCommand(u, lookup, msg) ==
    /\ tti_pc = "idle"
    /\ CooldownStep(u, lookup)
    /\ IF cd_call'.ret # NoText
       THEN /\ tti_reply' = <<cd_call'.ret>>
            /\ UNCHANGED <<tti_pc, tti_specific, orchVars>>
       ELSE HandleImageGeneration(msg, NoName)
    /\ UNCHANGED <<pollVars, active_providers, sessVars>>

\* mutant of TtiProviderCommand: the command checks the cooldown as /tti does
TtiProviderCommand_Cooldown(name, msg) ==
    /\ tti_pc = "idle"
    /\ CooldownStep(CHOOSE u \in SessionUsers : TRUE, "ok")
    /\ IF cd_call'.ret # NoText
       THEN /\ tti_reply' = <<cd_call'.ret>>
            /\ UNCHANGED <<tti_pc, tti_specific, orchVars>>
       ELSE HandleImageGeneration(msg, name)
    /\ UNCHANGED <<pollVars, active_providers, sessVars, reqVars>>

\* /tti-<name>: _handle_image_generation(event, name), with no cooldown check
TtiProviderCommand(name, msg) ==
    /\ tti_pc = "idle"
    /\ HandleImageGeneration(msg, name)
    /\ UNCHANGED cdVars
    /\ UNCHANGED <<pollVars, active_providers, sessVars, reqVars>>

\* _generate_with_providers has returned: the image, or "生成失败: ..."
TtiReturn ==
    /\ tti_pc = "generating"
    /\ o_pc = "done"
    /\ tti_reply' = Append(tti_reply, IF o_ret.success THEN ImageMsg(o_ret)
                                      ELSE EditFailedMsg(o_ret.error_message))
    /\ tti_pc' = "idle"
    /\ UNCHANGED tti_specific
    /\ UNCHANGED <<orchVars, cdVars, pollVars, active_providers, sessVars, reqVars>>

\* a /tti event of user u is dispatched: its handler is scheduled
RequestArrives(u) ==
    /\ pending[u] < MaxPending
    /\ pending' = [pending EXCEPT ![u] = @ + 1]
    /\ UNCHANGED <<accepted, editReqVars>>
    /\ UNCHANGED <<orchVars, cdVars, pollVars, active_providers, sessVars, cmdVars>>

\* what a check of user u adds to accepted: the user, the time read, the
\* cooldown_time read, and how many other /tti events of u were in flight
AcceptedRequest(u) ==
    [user |-> u, at |-> now, cooldown_time |-> cd_call'.cooldown_time,
     last_time |-> cd_call'.last_time, in_flight |-> pending[u] - 1]

\* the handler of a dispatched /tti event of user u runs; the handlers of the
\* events in flight run in any order
RequestRuns(u, lookup, msg) ==
    /\ pending[u] > 0
    /\ TtiCommand(u, lookup, msg)
    /\ pending' = [pending EXCEPT ![u] = @ - 1]
    /\ accepted' = IF /\ cd_call'.ret = NoText
                      /\ cd_call'.cooldown_time > 0
                      /\ u \notin admins
                   THEN Append(accepted, AcceptedRequest(u))
                   ELSE accepted
    /\ UNCHANGED editReqVars

----------------------------------------------------------------------------
(* /iti events of one user in flight together (src/main.py 247-266, 319-320) *)

\* the session image_to_image_command opens when it reaches
\* await wait_for_images(event): its own prompt and its own list images = []
NewSession(u, p) == [user |-> u, prompt |-> p, images |-> <<>>]

\* the number of /iti handlers of user u that wait in wait_for_images
OpenSessions(u) ==
    (IF iti_pc = "waiting" /\ iti_user = u THEN 1 ELSE 0)
    + Cardinality({ i \in DOMAIN other_sessions : other_sessions[i].user = u })

\* the host gives an inbound event of user u to the open session of u, when
\* there is one, and to the command handlers otherwise
RoutedToSession(u) == OpenSessions(u) > 0

\* an /iti event of user u is dispatched to image_to_image_command: its
\* handler is scheduled
ItiArrives(u) ==
    /\ ~RoutedToSession(u)
    /\ iti_pending[u] < MaxPending
    /\ iti_pending' = [iti_pending EXCEPT ![u] = @ + 1]
    /\ UNCHANGED <<pending, accepted, other_sessions>>
    /\ UNCHANGED <<orchVars, cdVars, pollVars, active_providers, sessVars, cmdVars>>

\* image_to_image_command of user u, up to its await of wait_for_images, run
\* while an /iti handler of u that was dispatched before it is already waiting
\* (that one got as far as its yield of the prompt message, where the event
\* loop may run the next handler, and went on to wait_for_images): the
\* command does not look for a session of the user
ItiAgain(u, lookup, msg) ==
    /\ iti_pc = "waiting"
    /\ CheckCooldown(u, lookup)
    /\ LET args == SplitMax1(Strip(msg))
       IN  IF cd_call'.ret # NoText
           THEN /\ sent' = <<cd_call'.ret>>
                /\ UNCHANGED other_sessions
           ELSE IF Len(args) < 2
           THEN /\ sent' = <<EditUsageMsg>>
                /\ UNCHANGED other_sessions
           ELSE /\ sent' = <<SendImagesMsg(ConfigGet("image_edit_timeout",
                                                      DefaultEditTimeout))>>
                /\ other_sessions' = Append(other_sessions, NewSession(u, Strip(args[2])))
    /\ UNCHANGED <<iti_pc, iti_user, prompt, timeout, images, started_at, kept_at,
                   last_event_at, edit_calls, ev_routed>>
    /\ UNCHANGED cmdVars

\* the handler of a dispatched /iti event of user u runs; the handlers of the
\* events in flight run in any order
ItiRuns(u, lookup, msg) ==
    /\ iti_pending[u] > 0
    /\ iti_pc \in {"idle", "waiting"}
    /\ IF iti_pc = "idle" THEN ItiStep(u, lookup, msg) /\ UNCHANGED other_sessions
       ELSE ItiAgain(u, lookup, msg)
    /\ iti_pending' = [iti_pending EXCEPT ![u] = @ - 1]
    /\ UNCHANGED <<pending, accepted>>

----------------------------------------------------------------------------
(* Specifications *)

\* __init__: the registry is filled from the configuration, once
Init ==
    /\ providers \in SUBSET Names
    /\ providers_list = <<>>
    /\ errors = <<>>
    /\ o_pc = "idle"
    /\ o_i = 1
    /\ o_ret = NoResult
    /\ calls = <<>>
    /\ config \in Configs \cup EditConfigs
    /\ admins \in AdminLists
    /\ user_last_request_time = <<>>
    /\ now = 0
    /\ cd_call = NoCheck
    /\ cd_seq = 0
    /\ p_pc = "idle"
    /\ attempt = 0
    /\ queries = 0
    /\ last_response = NoResponse
    /\ p_ret = NoResult
    /\ active_providers \in ActiveLists(providers)
    /\ iti_pc = "idle"
    /\ iti_user = "none"
    /\ prompt = NoText
    /\ timeout = NoSession
    /\ images = <<>>
    /\ started_at = NoSession
    /\ kept_at = NoSession
    /\ last_event_at = NoSession
    /\ sent = <<>>
    /\ edit_calls = <<>>
    /\ ev_routed = FALSE
    /\ tti_pc = "idle"
    /\ tti_specific = NoText
    /\ tti_reply = <<>>
    /\ pending = [u \in Users |-> 0]
    /\ accepted = <<>>
    /\ g_pc = "idle"
    /\ g_call = NoGenerateCall
    /\ g_ret = NoOutcome
    /\ iti_pending = [u \in Users |-> 0]
    /\ other_sessions = <<>>

NextOrch ==
    \/ \E list \in SeqsUpTo(Names, MaxCandidates) : Generate(list)
    \/ OrchSkipUnregistered
    \/ OrchInvoke
    \/ \E r \in SuccessResults : OrchOnSuccess(r)
    \/ \E m \in ErrorMessages : OrchOnFailure(m)
    \/ \E d \in ExceptionDetails : OrchOnException(d)
    \/ OrchAggregate

\* one call of _generate_with_providers, on every candidate list up to MaxCandidates,
\* under one configuration of the cooldown guard (which the call never reads)
InitOrch ==
    /\ Init
    /\ config = <<>>
    /\ admins = {}
    /\ active_providers = AllActive(providers)

SpecOrch == InitOrch /\ [][NextOrch]_vars

NextCooldown ==
    \/ \E u \in Users, lookup \in {"ok", "raises"} :
          CheckCooldown(u, lookup) /\ UNCHANGED <<sessVars, cmdVars, reqVars>>
    \/ Tick
    \/ ClockSetBack
    \/ \E c \in Configs : SetCooldownTime(c)

\* any sequence of _check_cooldown calls, as the clock and the configuration change,
\* with every provider registered (the guard never reads the registry)
InitCooldown ==
    /\ Init
    /\ providers = Names
    /\ active_providers = AllActive(providers)
    /\ config \in Configs

SpecCooldown == InitCooldown /\ [][NextCooldown]_vars

NextSteadyClock ==
    \/ \E u \in Users, lookup \in {"ok", "raises"} :
          CheckCooldown(u, lookup) /\ UNCHANGED <<sessVars, cmdVars, reqVars>>
    \/ Tick
    \/ \E c \in Configs : SetCooldownTime(c)

\* any sequence of _check_cooldown calls as the configuration changes, on a
\* clock that never goes back
SpecSteadyClock == InitCooldown /\ [][NextSteadyClock]_vars

NextPoll ==
    \/ PollStart
    \/ PollQuery
    \/ \E resp \in PollResponses : PollRespond(resp)
    \/ PollGiveUp

\* one call of _wait_for_task_completion against every sequence of responses
InitPoll ==
    /\ Init
    /\ providers = Names
    /\ active_providers = AllActive(providers)
    /\ config = <<>>
    /\ admins = {}

SpecPoll == InitPoll /\ [][NextPoll]_vars

NextTongyi ==
    \/ \E width \in Dims, height \in Dims : TongyiGenerateImage(width, height)
    \/ \E resp \in GenerateResponses : TongyiGenerateRespond(resp)
    \/ TongyiGenerateImageEdit
    \/ \E resp \in EditResponses : TongyiEditRespond(resp)
    \/ g_pc = "polling" /\ PollStart
    \/ PollQuery
    \/ \E resp \in PollResponses : PollRespond(resp)
    \/ PollGiveUp
    \/ TongyiEditReturn

\* one call of generate_image, on every width and height, or of
\* generate_image_edit, against every response of the backend
SpecTongyi == InitPoll /\ [][NextTongyi]_vars

NextCollect ==
    \/ \E u \in SessionUsers, m \in ItiMessages : ItiCommand(u, "ok", m)
    \/ \E ev \in Events : SessionEvent(ev)
    \/ \E ev \in SmallEvents : LateEvent(ev)
    \/ \E r \in SuccessResults : EditReturns(r)
    \/ \E m \in EditErrorMessages : EditReturns(FailureResult(m))
    \/ \E d \in ExceptionDetails : EditRaises(d)

\* one /iti session with every provider registered and every outcome of
\* _initialize_providers, under the default cooldown and no administrator
InitSession ==
    /\ Init
    /\ providers = Names
    /\ config \in {<<>>} \cup EditConfigs
    /\ admins = {}

\* the session on every event, with the clock standing still
SpecCollect == InitSession /\ [][NextCollect]_vars

NextSession ==
    \/ \E u \in SessionUsers, m \in ItiMessages : ItiCommand(u, "ok", m)
    \/ \E ev \in SmallEvents : SessionEvent(ev)
    \/ SessionExpire
    \/ \E ev \in SmallEvents : LateEvent(ev)
    \/ \E r \in SuccessResults : EditReturns(r)
    \/ \E m \in EditErrorMessages : EditReturns(FailureResult(m))
    \/ \E d \in ExceptionDetails : EditRaises(d)
    \/ Tick

\* the session on the events with at most one image, as the clock of Tick,
\* on which the session timer runs, advances
SpecSession == InitSession /\ [][NextSession]_vars

NextRequests ==
    \/ \E u \in SessionUsers : RequestArrives(u)
    \/ \E u \in SessionUsers, lookup \in {"ok", "raises"}, msg \in TtiMessages :
          RequestRuns(u, lookup, msg)
    \/ \E u \in Users \ SessionUsers :
          CheckCooldown(u, "ok") /\ UNCHANGED <<sessVars, cmdVars, reqVars>>
    \/ Tick
    \/ ClockSetBack

\* /tti events of one user, several in flight at a time, next to the commands
\* of another user, under every cooldown configuration and administrator list,
\* with no provider registered (an accepted request is answered at once)
InitRequests ==
    /\ Init
    /\ providers = {}
    /\ config \in Configs

SpecRequests == InitRequests /\ [][NextRequests]_vars

\* the configuration dicts of the /iti handlers in flight: the cooldown set,
\* disabled or absent
EditRequestConfigs == { <<>> } \cup { [k \in {"cooldown_time"} |-> v] : v \in {0, 1} }

NextEditRequests ==
    \/ \E u \in SessionUsers : ItiArrives(u)
    \/ \E u \in SessionUsers, lookup \in {"ok", "raises"}, msg \in ItiMessages :
          ItiRuns(u, lookup, msg)
    \/ \E ev \in SmallEvents : SessionEvent(ev)
    \/ \E msg \in ItiMessages : SessionEvent(Event(msg, <<>>))
    \/ \E ev \in SmallEvents : LateEvent(ev)
    \/ \E r \in SuccessResults : EditReturns(r)
    \/ \E e \in EditErrorMessages : EditReturns(FailureResult(e))
    \/ \E d \in ExceptionDetails : EditRaises(d)

\* /iti events of one user, several in flight at a time, and the events of the
\* session, under every cooldown configuration and administrator list, with
\* the clock standing still
InitEditRequests ==
    /\ Init
    /\ providers = Names
    /\ active_providers = AllActive(providers)
    /\ config \in EditRequestConfigs

SpecEditRequests == InitEditRequests /\ [][NextEditRequests]_vars

\* the configuration dicts of the requests that end without a generation:
\* the cooldown set to one second, or absent
ConsumedConfigs == { <<>>, [k \in {"cooldown_time"} |-> 1] }

NextConsumed ==
    \/ \E u \in SessionUsers, msg \in TtiMessages :
          TtiCommand(u, "ok", msg) /\ UNCHANGED reqVars
    \/ \E u \in SessionUsers, msg \in ItiMessages : ItiCommand(u, "ok", msg)
    \/ Tick

\* the /tti and /iti commands of one user as the clock advances, with no
\* provider registered or none active, under every administrator list
InitConsumed ==
    /\ Init
    /\ active_providers = <<>>
    /\ config \in ConsumedConfigs

SpecConsumed == InitConsumed /\ [][NextConsumed]_vars

\* the events tried on the session next to the generation commands
CommandEvents ==
    { Event(<<FinishWord>>, <<>>), Event(<<>>, <<Img("url", "a", "ok")>>) }

NextCommands ==
    \/ \E u \in SessionUsers, msg \in TtiMessages :
          TtiCommand(u, "ok", msg) /\ UNCHANGED reqVars
    \/ \E name \in Names, msg \in TtiMessages : TtiProviderCommand(name, msg)
    \/ OrchInvoke
    \/ \E r \in SuccessResults : OrchOnSuccess(r)
    \/ \E e \in EditErrorMessages : OrchOnFailure(e)
    \/ \E d \in ExceptionDetails : OrchOnException(d)
    \/ OrchAggregate
    \/ TtiReturn
    \/ \E u \in SessionUsers, msg \in ItiMessages : ItiCommand(u, "ok", msg)
    \/ \E ev \in CommandEvents : SessionEvent(ev)
    \/ \E r \in SuccessResults : EditReturns(r)
    \/ \E e \in EditErrorMessages : EditReturns(FailureResult(e))
    \/ \E d \in ExceptionDetails : EditRaises(d)

\* the commands of one user on every registry and every outcome of
\* _initialize_providers, under the default cooldown and no administrator
InitCommands ==
    /\ Init
    /\ config = <<>>
    /\ admins = {}

SpecCommands == InitCommands /\ [][NextCommands]_vars

Next ==
    NextOrch \/ NextCooldown \/ NextPoll \/ NextCollect \/ NextSession
    \/ NextRequests \/ NextCommands \/ NextTongyi \/ NextEditRequests
    \/ NextSteadyClock \/ NextConsumed

Spec == Init /\ [][Next]_vars

----------------------------------------------------------------------------
(* Properties of _generate_with_providers *)

Done == o_pc = "done"

Candidates == 1..Len(providers_list)

Registered(i) == providers_list[i] \in providers

\* the generate_image call made for candidate i
HasCall(i) == \E k \in 1..Len(calls) : calls[k].index = i

CallOf(i) == calls[CHOOSE k \in 1..Len(calls) : calls[k].index = i]

Succeeded(c) == c.status = "returned" /\ c.result.success

Failed(c) == c.status = "returned" /\ ~c.result.success

Raised(c) == c.status = "raised"

\* C1: the first candidate, in list order, whose generate_image reports success
\* has its result returned, and no candidate after it is ever invoked: a call
\* that reported success is the last call made, it ends the run with its own
\* result, and every registered candidate before it was called and did not succeed.
C1_FirstSuccessReturned ==
    /\ \A k \in 1..Len(calls) :
          Succeeded(calls[k]) =>
              /\ k = Len(calls)
              /\ Done
              /\ o_ret = calls[k].result
              /\ calls[k].name = providers_list[calls[k].index]
              /\ \A i \in 1..(calls[k].index - 1) :
                    Registered(i) =>
                        \E j \in 1..(k - 1) : calls[j].index = i /\ ~Succeeded(calls[j])
    /\ (Done /\ o_ret.success) => (Len(calls) > 0 /\ Succeeded(LastCall))

\* [A fails, B succeeds, C]: B's result is returned, C was never called
C1_Witness ==
    /\ Done
    /\ o_ret.success
    /\ Len(calls) = 2
    /\ Failed(calls[1])
    /\ LastCall.index < Len(providers_list)
    /\ Registered(Len(providers_list))

\* C2: candidates are attempted in the caller's order, one at a time: the calls
\* follow the list order, and only the latest call can be outstanding, so call
\* i+1 starts only after call i has returned or raised.
C2_OneCallAtATime ==
    /\ \A k \in 1..Len(calls) :
          /\ calls[k].index \in Candidates
          /\ calls[k].name = providers_list[calls[k].index]
          /\ calls[k].status = "outstanding" => k = Len(calls)
    /\ \A j, k \in 1..Len(calls) : j < k => calls[j].index < calls[k].index
    /\ Cardinality({ k \in 1..Len(calls) : calls[k].status = "outstanding" }) <= 1

\* the third call is outstanding after one call failed and one raised
C2_Witness ==
    /\ Len(calls) = 3
    /\ LastCall.status = "outstanding"
    /\ \E j, k \in 1..2 : Failed(calls[j]) /\ Raised(calls[k])

\* C3: a singleton list whose candidate fails with an error message m gives
\* success = False and error_message = m exactly, with no name and no wrapping.
C3_SingletonMessageVerbatim ==
    ( /\ Done
      /\ Len(providers_list) = 1
      /\ Len(calls) = 1
      /\ Failed(calls[1])
      /\ calls[1].result.error_message # NoText )
    => ( /\ ~o_ret.success
         /\ o_ret.error_message = calls[1].result.error_message )

\* the single candidate failed with "k: v", a message that itself holds ": "
C3_Witness ==
    /\ Done
    /\ Len(providers_list) = 1
    /\ Len(calls) = 1
    /\ Failed(calls[1])
    /\ calls[1].result.error_message = <<"k", ":", " ", "v">>
    /\ o_ret.error_message = <<"k", ":", " ", "v">>

\* what the claims say is recorded for candidate i once it has failed
CandidateMessage(i) ==
    IF ~Registered(i) THEN <<"NOT_CONFIGURED">>
    ELSE IF Raised(CallOf(i)) THEN <<"REQUEST_EXCEPTION", ":", " ">> \o CallOf(i).detail
    ELSE IF CallOf(i).result.error_message = NoText THEN <<"UNKNOWN_ERROR">>
    ELSE CallOf(i).result.error_message

CandidateEntry(i) == providers_list[i] \o <<":", " ">> \o CandidateMessage(i)

RECURSIVE EntryStart(_)
\* where candidate i's entry starts in the aggregate message
EntryStart(i) ==
    IF i = 1 THEN Len(AllFailedPrefix) + 1
    ELSE EntryStart(i - 1) + Len(CandidateEntry(i - 1)) + 2

EntryEnd(i) == EntryStart(i) + Len(CandidateEntry(i)) - 1

\* C4: with more than one candidate and no success, the failure message holds
\* the entry "<name>: <message>" of every candidate, in candidate order, each
\* followed by "; " except the last, and nothing else after the fixed prefix.
C4_AggregateHasEveryEntry ==
    (Done /\ ~o_ret.success /\ Len(providers_list) > 1) =>
        LET msg == o_ret.error_message
            n == Len(providers_list)
        IN  /\ \A i \in Candidates : Registered(i) => HasCall(i)
            /\ Len(msg) = EntryEnd(n)
            /\ SubSeq(msg, 1, Len(AllFailedPrefix)) = AllFailedPrefix
            /\ \A i \in Candidates :
                  SubSeq(msg, EntryStart(i), EntryEnd(i)) = CandidateEntry(i)
            /\ \A i \in 1..(n - 1) :
                  SubSeq(msg, EntryEnd(i) + 1, EntryEnd(i) + 2) = <<";", " ">>

\* three candidates: one failed with a message, one raised, one was not registered
C4_Witness ==
    /\ Done
    /\ ~o_ret.success
    /\ Len(providers_list) = 3
    /\ \E i \in Candidates : ~Registered(i)
    /\ \E k \in 1..Len(calls) : Raised(calls[k])
    /\ \E k \in 1..Len(calls) : Failed(calls[k]) /\ calls[k].result.error_message # NoText

\* C5: _generate_with_providers never raises and always comes to a return: no
\* exception escapes, a run that is not over can always take its next step, the
\* loop never passes the end of the list, and what is returned is the
\* successful call's result or a failure with a non-empty error message.
C5_NeverRaises ==
    /\ o_pc # "raised"
    /\ o_i <= Len(providers_list) + 1
    /\ Len(calls) <= Len(providers_list)
    /\ o_pc \in {"loop", "await"} => ENABLED NextOrch
    /\ Done =>
          \/ /\ o_ret.success
             /\ Len(calls) > 0
             /\ o_ret = LastCall.result
          \/ /\ ~o_ret.success
             /\ o_ret.error_message # NoText

\* a failure was returned for a list of two candidates, one raising and one not registered
C5_Witness ==
    /\ Done
    /\ ~o_ret.success
    /\ o_ret.error_message # NoText
    /\ Len(providers_list) = 2
    /\ \E i \in Candidates : ~Registered(i)
    /\ \E k \in 1..Len(calls) : Raised(calls[k])

\* C6: a candidate that raises, or whose name is not registered, leaves the
\* entry "<name>: 请求异常: <detail>" or "<name>: 供应商未配置" in errors, and the
\* run goes on: it ends only with a success or after every candidate was tried.
C6_FaultsAreRecordedAndSkipped ==
    /\ o_pc # "raised"
    /\ ~(Done /\ o_ret.success) => Len(errors) = o_i - 1
    /\ \A i \in 1..Len(errors) :
          /\ ~Registered(i) =>
                errors[i] = providers_list[i] \o <<":", " ", "NOT_CONFIGURED">>
          /\ (Registered(i) /\ HasCall(i) /\ Raised(CallOf(i))) =>
                errors[i] = providers_list[i] \o <<":", " ", "REQUEST_EXCEPTION", ":", " ">>
                                \o CallOf(i).detail
    /\ (Done /\ ~o_ret.success) =>
          /\ Len(errors) = Len(providers_list)
          /\ \A i \in Candidates : Registered(i) => HasCall(i)

\* the third candidate's success is returned after one unregistered name and one exception
C6_Witness ==
    /\ Done
    /\ o_ret.success
    /\ Len(calls) = 2
    /\ Raised(calls[1])
    /\ LastCall.index = 3
    /\ \E i \in 1..2 : ~Registered(i)
    /\ Len(errors) = 2

----------------------------------------------------------------------------
(* Properties of _check_cooldown *)

\* a step that is one _check_cooldown call
CheckStep == cd_seq' # cd_seq

\* the duration the call reads, in seconds
Duration == IF "cooldown_time" \in DOMAIN config THEN config["cooldown_time"] ELSE 180

HasRecord(u) == u \in DOMAIN user_last_request_time

\* time since u's stored timestamp, in ticks
Elapsed(u) == now - user_last_request_time[u]

\* the seconds a remaining-time message announces
Announced(ret) == IF Len(ret) = 5 THEN ret[2] * 60 + ret[4] ELSE ret[2]

\* C7: for a non-admin user with a stored timestamp t0 and a duration D > 0, a
\* request checked at t with t - t0 < D is rejected with a remaining-time message
\* (announcing D - (t - t0) cut to whole seconds) and user_last_request_time is
\* left as it was.
C7_RejectionLeavesRecord ==
    [][ CheckStep =>
          LET u == cd_call'.user
          IN  ( /\ Duration > 0
                /\ u \notin admins
                /\ HasRecord(u)
                /\ Elapsed(u) < Duration * TicksPerSecond )
              => ( /\ cd_call'.ret # NoText
                   /\ cd_call'.ret[1] = "COOLDOWN_RETRY_IN"
                   /\ Announced(cd_call'.ret) * TicksPerSecond
                          <= Duration * TicksPerSecond - Elapsed(u)
                   /\ Duration * TicksPerSecond - Elapsed(u)
                          < (Announced(cd_call'.ret) + 1) * TicksPerSecond
                   /\ user_last_request_time' = user_last_request_time )
      ]_vars

\* u2, not an administrator, accepted at 0, was rejected one tick later under a
\* duration of 1 s: "0 seconds" are announced and the timestamp is still 0
C7_Witness ==
    /\ "u2" \notin admins
    /\ cd_call.user = "u2"
    /\ cd_call.cooldown_time = 1
    /\ cd_call.last_time = 0
    /\ cd_call.ret = <<"COOLDOWN_RETRY_IN", 0, "SEC">>
    /\ user_last_request_time["u2"] = 0
    /\ now = 1

\* C8: for a non-admin user and a duration D > 0, a request is accepted when the
\* user has no record or when elapsed >= D (elapsed = D included), and then the
\* user's timestamp becomes the current time, the other users' entries unchanged.
C8_AcceptanceStampsNow ==
    [][ CheckStep =>
          LET u == cd_call'.user
          IN  ( /\ Duration > 0
                /\ u \notin admins
                /\ (~HasRecord(u) \/ Elapsed(u) >= Duration * TicksPerSecond) )
              => ( /\ cd_call'.ret = NoText
                   /\ DOMAIN user_last_request_time' = DOMAIN user_last_request_time \cup {u}
                   /\ user_last_request_time'[u] = now
                   /\ \A v \in DOMAIN user_last_request_time :
                         v # u => user_last_request_time'[v] = user_last_request_time[v] )
      ]_vars

\* the boundary: u2 had timestamp 0 and was accepted exactly one duration (1 s) later
C8_Witness ==
    /\ "u2" \notin admins
    /\ cd_call.user = "u2"
    /\ cd_call.cooldown_time = 1
    /\ cd_call.last_time = 0
    /\ cd_call.ret = NoText
    /\ user_last_request_time["u2"] = TicksPerSecond
    /\ now = TicksPerSecond

\* C9: when the configured duration is <= 0 every request of every user is
\* accepted, whatever user_last_request_time holds.
C9_DisabledGuardAcceptsAll ==
    [][ CheckStep => (Duration <= 0 => cd_call'.ret = NoText) ]_vars

\* under duration 0, u2 was accepted although its stored timestamp lies ahead of
\* the clock (the clock was set back after an accepted request)
C9_Witness ==
    /\ "u2" \notin admins
    /\ cd_call.user = "u2"
    /\ cd_call.cooldown_time = 0
    /\ cd_call.ret = NoText
    /\ HasRecord("u2")
    /\ user_last_request_time["u2"] > now
    /\ Duration = 0

----------------------------------------------------------------------------
(* Properties of _wait_for_task_completion *)

\* a response that ends the polling: the request raised, the HTTP status is
\* not OK, or the body carries the task status SUCCEEDED or FAILED
Terminal(resp) ==
    \/ resp.transport = "error"
    \/ /\ resp.transport = "ok"
       /\ \/ resp.status # "200"
          \/ resp.output /\ resp.task_status \in {"SUCCEEDED", "FAILED"}

\* no response so far has ended the polling
NoTerminalResponse == ~Terminal(last_response)

Returned == p_pc = "done"

\* C16: the wait always ends: every query counts as one attempt, at most 60
\* status queries are issued, and a wait that met no terminal response returns,
\* after exactly 60 queries, the failure that carries the timeout message.
C16_TerminatesWithinBudget ==
    /\ queries = attempt
    /\ queries <= MaxAttempts
    /\ (Returned /\ NoTerminalResponse)
         => /\ queries = MaxAttempts
            /\ p_ret = FailureResult(TaskTimeoutMsg)
    /\ (p_pc = "loop" /\ attempt = MaxAttempts /\ NoTerminalResponse)
         => ENABLED PollGiveUp

\* 60 queries were answered without a terminal status and the wait returned
\* the timeout failure
C16_Witness ==
    /\ Returned
    /\ queries = MaxAttempts
    /\ last_response \in PollResponses
    /\ NoTerminalResponse
    /\ ~p_ret.success
    /\ p_ret.error_message = TaskTimeoutMsg

\* the result the claim gives for a terminal response
TerminalResult(resp) ==
    IF resp.transport = "error"
    THEN FailureResult(QueryExceptionPrefix \o resp.detail)
    ELSE IF resp.status # "200"
    THEN FailureResult(QueryFailedPrefix \o
             (IF resp.message = NoText THEN <<"HTTP", " ", resp.status>> ELSE resp.message))
    ELSE IF resp.task_status = "FAILED"
    THEN FailureResult(ImageFailedPrefix \o
             (IF resp.out_message = NoText THEN TaskFailedMsg ELSE resp.out_message))
    ELSE IF resp.depth = 5
    THEN UrlResult(resp.image)
    ELSE FailureResult(NoImageMsg)

\* C17: the first terminal response decides the result and no query follows
\* it: a raised request or a non-OK status is a failure at once, FAILED is a
\* failure with the backend's message, SUCCEEDED is a success only with an
\* extractable image and otherwise the no-image failure; any other response
\* costs one attempt and the polling goes on.
C17_FirstTerminalResponseDecides ==
    /\ [] ( /\ Terminal(last_response)
               => (Returned /\ p_ret = TerminalResult(last_response))
            /\ (last_response \in PollResponses /\ NoTerminalResponse /\ ~Returned)
               => (p_pc \in {"loop", "await"} /\ attempt = queries) )
    /\ [][ /\ Returned => (queries' = queries /\ p_ret' = p_ret /\ Returned')
           /\ (p_pc = "await" /\ ~Terminal(last_response'))
                => (p_pc' = "loop" /\ attempt' = attempt /\ queries' = queries)
       ]_vars

\* the third query was answered SUCCEEDED without an image, after two
\* non-terminal answers, and the wait returned the no-image failure
C17_Witness ==
    /\ Returned
    /\ queries = 3
    /\ last_response.task_status = "SUCCEEDED"
    /\ last_response.status = "200"
    /\ last_response.depth = 4
    /\ p_ret = FailureResult(NoImageMsg)

----------------------------------------------------------------------------
(* Properties of the image collection session *)

\* message_str values that are the finish signal
FinishTexts == { <<FinishWord>>, <<" ", FinishWord, " ">> }

IsFinish(ev) == ev.message_str \in FinishTexts

\* wait_for_images handles event ev in this step
Handles(ev) == SessionEvent(ev)

\* this step is wait_for_images handling some event
HandlerStep == iti_pc = "waiting" /\ now' = now /\ iti_pc' # "expired"

\* seq is the start of seq2
IsPrefix(seq, seq2) == Len(seq) <= Len(seq2) /\ SubSeq(seq2, 1, Len(seq)) = seq

\* the data URLs of the components of an event that can be fetched, in order
RECURSIVE Fetchable(_)
Fetchable(comps) ==
    IF comps = <<>> THEN <<>>
    ELSE (IF Head(comps).fetch = "ok" THEN <<DataUrl(Head(comps).data)>> ELSE <<>>)
         \o Fetchable(Tail(comps))

\* the first n elements of seq
FirstN(seq, n) == SubSeq(seq, 1, IF Len(seq) < n THEN Len(seq) ELSE n)

\* some component of comps is met with 3 images held
MeetsFullList(held, comps) ==
    \E i \in DOMAIN comps : Len(held) + Len(Fetchable(SubSeq(comps, 1, i - 1))) >= 3

\* C12: the image list never holds more than 3 images; an event's images are
\* appended in order up to 3, the images held before stay as they were, and a
\* component met with 3 images held is dropped with the "max reached" notice.
C12_AtMostThreeImages ==
    /\ [] (Len(images) <= 3)
    /\ [][ /\ iti_pc = "waiting" => IsPrefix(images, images')
           /\ HandlerStep =>
                \A ev \in Events :
                  (~IsFinish(ev) /\ Handles(ev))
                    => /\ images' = FirstN(images \o Fetchable(ev.image_components), 3)
                       /\ MeetsFullList(images, ev.image_components)
                            => (sent' # <<>> /\ sent'[1] = MaxReachedMsg)
       ]_vars

\* with two images held, an event brought two more: the first was taken, the
\* second was dropped with the notice
C12_Witness ==
    /\ iti_pc = "waiting"
    /\ images = <<DataUrl("a"), DataUrl("b"), DataUrl("b")>>
    /\ sent = <<MaxReachedMsg, ReceivedMsg(3)>>

\* C13: the finish signal with no image held ends the session with the
\* cancellation notice, and no generate_image_edit call is made, then or later.
C13_FinishWithoutImagesCancels ==
    /\ [] (iti_pc = "cancelled" => edit_calls = <<>>)
    /\ [][ /\ (HandlerStep /\ Len(images) = 0) =>
                \A ev \in Events :
                  (IsFinish(ev) /\ Handles(ev))
                    => /\ iti_pc' = "cancelled"
                       /\ sent' = <<CancelledMsg>>
                       /\ edit_calls' = edit_calls
           /\ iti_pc = "cancelled" => (iti_pc' = "cancelled" /\ \A ev \in Events : ~Handles(ev))
       ]_vars

\* the session was cancelled by a finish signal and a later event was not
\* given to it
C13_Witness ==
    /\ iti_pc = "cancelled"
    /\ images = <<>>
    /\ edit_calls = <<>>
    /\ ~ev_routed
    /\ sent = <<>>

\* the statement of C14 as given: the finish signal with an image held always
\* makes the one generate_image_edit call
C14_Original ==
    [][ (HandlerStep /\ Len(images) >= 1) =>
          \A ev \in Events :
            (IsFinish(ev) /\ Handles(ev))
              => edit_calls' = <<EditCall(Tongyi, prompt, images)>>
      ]_vars

\* C14 (amended): the finish signal with an image held ends the session; when
\* tongyi is active it makes one generate_image_edit call on tongyi with the
\* prompt of the /iti command and the whole image list, when tongyi is not
\* active it makes no call and sends the "needs Tongyi" notice; there is never
\* a second call nor a call on another provider.
C14_OneEditCallWhenTongyiActive ==
    /\ [] ( /\ Len(edit_calls) <= 1
            /\ \A i \in DOMAIN edit_calls :
                 /\ edit_calls[i] = EditCall(Tongyi, prompt, images)
                 /\ Tongyi \in Range(active_providers)
                 /\ images # <<>>
            /\ edit_calls # <<>> => iti_pc \in {"editing", "completed"} )
    /\ [][ /\ (HandlerStep /\ Len(images) >= 1) =>
                \A ev \in Events :
                  (IsFinish(ev) /\ Handles(ev))
                    => IF Tongyi \in Range(active_providers)
                       THEN /\ edit_calls' = <<EditCall(Tongyi, prompt, images)>>
                            /\ iti_pc' = "editing"
                       ELSE /\ edit_calls' = <<>>
                            /\ iti_pc' = "completed"
                            /\ sent'[Len(sent')] = EditNeedsTongyiMsg
           /\ iti_pc \in {"editing", "completed"}
                => (edit_calls' = edit_calls /\ \A ev \in Events : ~Handles(ev))
       ]_vars

\* /iti "  a b " collected two images, the finish signal made the one call with
\* "a b" and both images, and the call has returned
C14_Witness ==
    /\ iti_pc = "completed"
    /\ prompt = <<"a", " ", "b">>
    /\ edit_calls = <<EditCall(Tongyi, <<"a", " ", "b">>, <<DataUrl("b"), DataUrl("a")>>)>>
    /\ sent = <<ImageMsg(CHOOSE r \in SuccessResults : r.image_url # NoText)>>

\* the session timer has run past its timeout
Overdue == iti_pc = "waiting" /\ now - kept_at > timeout * TicksPerSecond

\* C15: once the session's timeout has elapsed no event is handled any more:
\* the session ends as expired with the timeout notice, and from then on it
\* stays expired, its image list stays as it is, no generate_image_edit call is
\* made and no event is given to wait_for_images.
C15_ExpiredSessionTakesNoInput ==
    /\ [] (iti_pc = "expired" => edit_calls = <<>>)
    /\ [][ /\ (iti_pc = "waiting" /\ iti_pc' = "expired")
                => (sent' = <<SessionTimeoutMsg>> /\ now - kept_at >= timeout * TicksPerSecond)
           /\ (Overdue \/ iti_pc = "expired")
                => /\ iti_pc' \in {iti_pc, "expired"}
                   /\ images' = images
                   /\ edit_calls' = edit_calls
                   /\ ev_routed' => ev_routed
                   /\ \A ev \in SmallEvents : ~Handles(ev)
       ]_vars

\* a session that held an image timed out, and an event that came afterwards
\* was not given to it
C15_Witness ==
    /\ iti_pc = "expired"
    /\ images # <<>>
    /\ edit_calls = <<>>
    /\ ~ev_routed
    /\ sent = <<>>

\* C18: every event wait_for_images handles that is not the finish signal, with
\* or without images, restarts the timer for the whole timeout and leaves the
\* session waiting; the session times out only when the whole timeout has
\* passed since the latest handled event (or since the start).
C18_HandledEventRestartsTimer ==
    [][ /\ HandlerStep =>
             \A ev \in SmallEvents :
               (~IsFinish(ev) /\ Handles(ev))
                 => /\ kept_at' = now
                    /\ timeout' = timeout
                    /\ iti_pc' = "waiting"
        /\ (iti_pc = "waiting" /\ iti_pc' = "expired")
             => now - last_event_at >= timeout * TicksPerSecond
      ]_vars

\* a reminder was just sent for an event without images, later than the
\* timeout after the start, and the session is waiting with its timer at now
C18_Witness ==
    /\ iti_pc = "waiting"
    /\ sent = <<ReminderMsg>>
    /\ kept_at = now
    /\ now - started_at > timeout * TicksPerSecond

\* the statement of C19 as given: no event is handled later than the timeout
\* after the start of the session
C19_Original ==
    [][ HandlerStep =>
          \A ev \in SmallEvents : Handles(ev) => now - started_at <= timeout * TicksPerSecond
      ]_vars

\* C19 (amended): expiry is decided against the time of the latest handled
\* event, or the start when there is none: no event is handled later than the
\* timeout after it, and the session does not time out before that.
C19_ExpiryCountsFromLatestEvent ==
    [][ /\ HandlerStep =>
             \A ev \in SmallEvents : Handles(ev) => now - last_event_at <= timeout * TicksPerSecond
        /\ (iti_pc = "waiting" /\ now - last_event_at > timeout * TicksPerSecond)
             => /\ images' = images
                /\ edit_calls' = edit_calls
                /\ iti_pc' \in {"waiting", "expired"}
        /\ (iti_pc = "waiting" /\ now - last_event_at < timeout * TicksPerSecond)
             => iti_pc' # "expired"
      ]_vars

\* an image was taken later than the timeout after the start of the session
C19_Witness ==
    /\ iti_pc = "waiting"
    /\ images # <<>>
    /\ sent = <<ReceivedMsg(1)>>
    /\ last_event_at = now
    /\ now - started_at > timeout * TicksPerSecond


\* C11: the cooldown decision and the timestamp write are one step per user.
\* Of the /tti requests of a user who is not an administrator, under a
\* cooldown of D > 0 seconds, any two that are accepted were checked at least
\* D seconds apart, the later one after the earlier one: of two requests in
\* flight together and checked less than D apart (both with no prior record
\* included), at most one is accepted, in every order the handlers run.
C11_AtMostOneAcceptedWithinCooldown ==
    \A i, j \in DOMAIN accepted :
        (i < j /\ accepted[i].user = accepted[j].user)
            => accepted[j].at - accepted[i].at
                   >= accepted[j].cooldown_time * TicksPerSecond

\* two /tti requests of u1 were in flight together with no prior record; the
\* first one checked was accepted and the second, checked at the same reading
\* of the clock, was rejected against the timestamp the first one wrote
C11_Witness ==
    /\ Len(accepted) = 1
    /\ accepted[1].user = "u1"
    /\ accepted[1].in_flight >= 1
    /\ accepted[1].last_time = NoTime
    /\ accepted[1].at = now
    /\ pending["u1"] = 0
    /\ cd_call.user = "u1"
    /\ cd_call.ret # NoText
    /\ cd_call.last_time = accepted[1].at
    /\ tti_reply = <<cd_call.ret>>


\* the names generate_image or generate_image_edit may be called on
Usable == Range(active_providers) \cap providers

\* C20: a provider outside self.active_providers is never invoked.  Every
\* generate_image call of /tti and of the /tti-<name> commands and every
\* generate_image_edit call of the edit pipeline is made on a provider that is
\* registered and active.  A /tti-<name> command with a prompt whose provider
\* is not active makes no call, starts no generation and answers "not
\* configured" (not registered) or "invalid or unavailable" (registered);
\* without a prompt it answers the help text, with no call either.  The edit
\* pipeline reached while tongyi is not active makes no call and answers
\* that image editing needs Tongyi configured.
C20_InactiveProviderNeverInvoked ==
    /\ [] ( /\ \A i \in DOMAIN calls : calls[i].name \in Usable
            /\ \A j \in DOMAIN edit_calls : edit_calls[j].provider \in Usable
            /\ (iti_pc = "completed" /\ images # <<>> /\ Tongyi \notin Range(active_providers))
                 => (edit_calls = <<>> /\ sent[Len(sent)] = EditNeedsTongyiMsg) )
    /\ [][ \A name \in Names \ Range(active_providers), msg \in TtiMessages :
             (tti_pc = "idle" /\ TtiProviderCommand(name, msg))
               => /\ calls' = calls
                  /\ o_pc' = o_pc
                  /\ providers_list' = providers_list
                  /\ tti_pc' = "idle"
                  /\ tti_reply' = << IF Args(msg) = <<>> THEN HelpMsg
                                     ELSE IF name \in providers
                                          THEN ProviderUnavailableMsg(name)
                                          ELSE ProviderNotConfiguredMsg(name) >>
       ]_vars

\* with zp registered and active and tongyi registered but not active:
\* /tti-ty "a b" was answered "invalid or unavailable", /tti over the active
\* list called zp alone, and the edit session that was finished with an image
\* made no call and was answered that editing needs Tongyi
C20_Witness ==
    /\ providers = Names
    /\ active_providers = << <<"z", "p">> >>
    /\ tti_pc = "idle"
    /\ tti_specific = Tongyi
    /\ tti_reply = <<ProviderUnavailableMsg(Tongyi)>>
    /\ Len(calls) = 1
    /\ calls[1].name = <<"z", "p">>
    /\ calls[1].status = "returned"
    /\ iti_pc = "completed"
    /\ images # <<>>
    /\ edit_calls = <<>>
    /\ sent[Len(sent)] = EditNeedsTongyiMsg


\* a step in which _check_cooldown returned the cooldown message
Rejected == cd_seq' # cd_seq /\ cd_call'.ret # NoText

\* C21: a /tti or /iti request the cooldown guard rejects is answered with the
\* remaining-time message and nothing else.  The step makes no generate_image
\* and no generate_image_edit call, starts no orchestration, opens no image
\* collection session and leaves a session that is open as it was, and it
\* changes neither the cooldown record nor the registry, the active list or
\* the configuration; the one message sent is the one _check_cooldown
\* computed from the record of the user.
C21_RejectedRequestChangesNothing ==
    [][ Rejected =>
          /\ UNCHANGED orchVars
          /\ UNCHANGED <<config, admins, user_last_request_time, now>>
          /\ UNCHANGED <<pollVars, active_providers>>
          /\ UNCHANGED <<iti_pc, iti_user, prompt, timeout, images, started_at, kept_at,
                         last_event_at, edit_calls, ev_routed>>
          /\ UNCHANGED <<tti_pc, tti_specific>>
          /\ cd_call'.user \in DOMAIN user_last_request_time
          /\ cd_call'.ret = CooldownMessage(cd_call'.cooldown_time,
                                            now - user_last_request_time[cd_call'.user])
          /\ \/ tti_reply' = <<cd_call'.ret>> /\ sent' = sent
             \/ sent' = <<cd_call'.ret>> /\ tti_reply' = tti_reply
      ]_vars

\* u1's /tti "a b" went to the one active provider, which returned an image;
\* u1's /iti and then u1's next /tti were both answered with the cooldown
\* message: no session was opened and the one call stayed the only one
C21_Witness ==
    /\ active_providers # <<>>
    /\ user_last_request_time = [u \in {"u1"} |-> 0]
    /\ cd_call.ret = CooldownMessage(DefaultCooldownTime, 0)
    /\ tti_reply = <<cd_call.ret>>
    /\ sent = <<cd_call.ret>>
    /\ tti_pc = "idle"
    /\ iti_pc = "idle"
    /\ Len(calls) = 1
    /\ calls[1].status = "returned"
    /\ o_ret.success
    /\ edit_calls = <<>>


\* what /tti-<name> with message_str msg answers first, whatever the record
ProviderCommandReply(name, msg) ==
    IF Args(msg) = <<>> THEN HelpMsg
    ELSE IF name \notin Range(active_providers)
         THEN IF name \in providers THEN ProviderUnavailableMsg(name)
              ELSE ProviderNotConfiguredMsg(name)
    ELSE UsingProviderMsg(name, Join(<<" ">>, Args(msg)))

\* C22: the /tti-<name> commands bypass the cooldown guard.  A /tti-<name>
\* command makes no cooldown check and leaves user_last_request_time as it
\* is; its answer is the one its arguments and the provider's state decide,
\* never the cooldown message, however recent the user's accepted request,
\* and with a prompt and an active provider it starts the generation on that
\* provider alone.  The record changes only in a step in which
\* _check_cooldown accepted a /tti or /iti request, so a /tti-<name> command
\* never starts or extends a cooldown.
C22_ProviderCommandsBypassCooldown ==
    [][ /\ \A name \in Names, msg \in TtiMessages :
             (tti_pc = "idle" /\ TtiProviderCommand(name, msg))
               => /\ UNCHANGED <<user_last_request_time, cd_call, cd_seq>>
                  /\ tti_reply' = <<ProviderCommandReply(name, msg)>>
                  /\ (Args(msg) # <<>> /\ name \in Range(active_providers) /\ o_pc = "idle")
                       => (o_pc' = "loop" /\ providers_list' = <<name>>)
        /\ user_last_request_time' # user_last_request_time
             => (cd_seq' # cd_seq /\ cd_call'.ret = NoText)
      ]_vars

\* u1's /tti without a prompt was accepted and answered with the help text,
\* u1's /iti right after it was rejected by the cooldown, and /tti-zp "a b",
\* still at the same reading of the clock, went to zp, which returned an
\* image; the record still holds the time of the /tti
C22_Witness ==
    /\ user_last_request_time = [u \in {"u1"} |-> 0]
    /\ now = 0
    /\ sent = <<CooldownMessage(DefaultCooldownTime, 0)>>
    /\ cd_call.ret = CooldownMessage(DefaultCooldownTime, 0)
    /\ tti_specific = <<"z", "p">>
    /\ tti_pc = "idle"
    /\ Len(tti_reply) = 2
    /\ tti_reply[1] = UsingProviderMsg(<<"z", "p">>, <<"a", " ", "b">>)
    /\ Len(calls) = 1
    /\ calls[1].name = <<"z", "p">>
    /\ o_ret.success


\* C23: generate_image and generate_image_edit never raise across the
\* provider boundary.  For every width and height, 0 included, and every
\* response of the backend, a call that has ended has returned an
\* ImageGenerationResult, and a result with success = false carries an error
\* message.
C23_TongyiNeverRaises ==
    g_pc = "done" =>
        /\ g_ret.kind = "returned"
        /\ ~g_ret.result.success => g_ret.result.error_message # NoText


\* C24: in every reachable state a user has at most one open image
\* collection session: no /iti handler of a user reaches wait_for_images,
\* with an image list of its own, while another /iti handler of that user is
\* waiting there.
C24_AtMostOneSessionPerUser == \A u \in Users : OpenSessions(u) <= 1


\* C25: on a clock that never goes back, the timestamp stored for a user in
\* user_last_request_time never decreases, whatever requests are made and
\* however the configuration changes, and an entry that exists is never
\* removed.
C25_TimestampsNeverDecrease ==
    [][ \A u \in DOMAIN user_last_request_time :
          /\ u \in DOMAIN user_last_request_time'
          /\ user_last_request_time'[u] >= user_last_request_time[u]
      ]_vars

\* u1 has been accepted twice: the latest check read u1's record and
\* overwrote it with a later time, and u2's record is still there
C25_Witness ==
    /\ cd_call.user = "u1"
    /\ cd_call.ret = NoText
    /\ cd_call.last_time # NoTime
    /\ "u1" \in DOMAIN user_last_request_time
    /\ user_last_request_time["u1"] = now
    /\ user_last_request_time["u1"] > cd_call.last_time
    /\ "u2" \in DOMAIN user_last_request_time
    /\ user_last_request_time["u2"] < now


\* the user is under the guard: the cooldown is positive and the user is not
\* an administrator
Guarded(u) == ConfigGet("cooldown_time", DefaultCooldownTime) > 0 /\ u \notin admins

\* the user has a record and the cooldown counted from it has not run out
CoolingDown(u) ==
    /\ u \in DOMAIN user_last_request_time
    /\ InCooldown(now - user_last_request_time[u],
                  ConfigGet("cooldown_time", DefaultCooldownTime))

\* C26: the cooldown is consumed before the request is validated.  A /tti
\* request of a user under the guard that passes the check and is answered
\* with the help text (no prompt) or with "no service available" (no active
\* provider), and an /iti request that passes it and is answered with the
\* usage text (no prompt), write the user's timestamp all the same; and the
\* user's next /tti or /iti request within the cooldown is answered with the
\* cooldown message alone.
C26_CooldownConsumedBeforeValidation ==
    [][ \A u \in SessionUsers :
          /\ \A msg \in TtiMessages :
               (Guarded(u) /\ TtiCommand(u, "ok", msg))
                 => IF CoolingDown(u)
                    THEN /\ tti_reply' = <<CooldownMessage(
                                  ConfigGet("cooldown_time", DefaultCooldownTime),
                                  now - user_last_request_time[u])>>
                         /\ UNCHANGED user_last_request_time
                    ELSE /\ tti_reply' = <<IF Args(msg) = <<>> THEN HelpMsg ELSE NoServiceMsg>>
                         /\ tti_pc' = "idle"
                         /\ calls' = calls
                         /\ user_last_request_time' = Put(user_last_request_time, u, now)
          /\ \A msg \in ItiMessages :
               (Guarded(u) /\ ItiCommand(u, "ok", msg))
                 => IF CoolingDown(u)
                    THEN /\ sent' = <<CooldownMessage(
                                  ConfigGet("cooldown_time", DefaultCooldownTime),
                                  now - user_last_request_time[u])>>
                         /\ iti_pc' = "idle"
                         /\ UNCHANGED user_last_request_time
                    ELSE /\ Len(SplitMax1(Strip(msg))) < 2
                            => (sent' = <<EditUsageMsg>> /\ iti_pc' = "idle")
                         /\ user_last_request_time' = Put(user_last_request_time, u, now)
      ]_vars

\* under a cooldown of one second u1's /tti without a prompt was answered
\* with the help text at time 0; one tick later, with no generation attempted
\* and no session opened since the start, u1's /iti and u1's /tti "a b" were
\* both answered with the cooldown message
C26_Witness ==
    /\ config = [k \in {"cooldown_time"} |-> 1]
    /\ admins = {}
    /\ now = 1
    /\ user_last_request_time = [u \in {"u1"} |-> 0]
    /\ cd_call.ret = CooldownMessage(1, 1)
    /\ tti_reply = <<cd_call.ret>>
    /\ sent = <<cd_call.ret>>
    /\ calls = <<>>
    /\ o_pc = "idle"
    /\ iti_pc = "idle"
    /\ edit_calls = <<>>

====
